---- MODULE Spec2Model ----
(***************************************************************************)
(* KiBot `copy_files` output: file collection (Copy_FilesOptions.get_files *)
(* and its helpers), the copy engine (Copy_FilesOptions.run) and the       *)
(* on-demand triggering of producer outputs, from kibot/out_copy_files.py. *)
(*                                                                         *)
(* Paths are strings.  The os.path / glob / fnmatch / re functions the     *)
(* code calls are operators over strings that compute what the library     *)
(* computes on a POSIX system.                                             *)
(***************************************************************************)
EXTENDS Integers, Sequences, FiniteSets, TLC

(***************************************************************************)
(* Strings and sequences                                                   *)
(***************************************************************************)
Ch(s, i) == SubSeq(s, i, i)

startswith(s, p) == Len(p) <= Len(s) /\ SubSeq(s, 1, Len(p)) = p

endswith(s, p) == Len(p) <= Len(s) /\ SubSeq(s, Len(s) - Len(p) + 1, Len(s)) = p

\* the least and the greatest member of a set of positions, 0 for none
FirstOr0(S) == IF S = {} THEN 0 ELSE CHOOSE i \in S : \A j \in S : i <= j

LastOr0(S) == IF S = {} THEN 0 ELSE CHOOSE i \in S : \A j \in S : i >= j

\* str.find / str.rfind of "/" (0 when absent, else the 1-based position)
FindSlash(s) == FirstOr0({i \in 1..Len(s) : Ch(s, i) = "/"})

RFindSlash(s) == LastOr0({i \in 1..Len(s) : Ch(s, i) = "/"})

RECURSIVE split(_)
\* str.split('/')
split(s) ==
    LET At(i) == IF i = 0 THEN <<s>>
                 ELSE <<SubSeq(s, 1, i - 1)>> \o split(SubSeq(s, i + 1, Len(s)))
    IN  At(FindSlash(s))

RECURSIVE JoinSlash(_)
\* '/'.join(comps)
JoinSlash(comps) ==
    IF comps = <<>> THEN ""
    ELSE IF Len(comps) = 1 THEN comps[1]
    ELSE comps[1] \o "/" \o JoinSlash(Tail(comps))

RECURSIVE RStripSlash(_)
\* str.rstrip('/')
RStripSlash(s) ==
    IF s # "" /\ Ch(s, Len(s)) = "/" THEN RStripSlash(SubSeq(s, 1, Len(s) - 1)) ELSE s

Range(q) == {q[i] : i \in 1..Len(q)}

(***************************************************************************)
(* posixpath                                                               *)
(***************************************************************************)
isabs(p) == startswith(p, "/")

basename(p) == SubSeq(p, RFindSlash(p) + 1, Len(p))

\* the head of posixpath.split, stripped of its trailing slashes unless it
\* is slashes only
dirname(p) ==
    LET Strip(head) == IF head # "" /\ (\E i \in 1..Len(head) : Ch(head, i) # "/")
                       THEN RStripSlash(head) ELSE head
    IN  Strip(SubSeq(p, 1, RFindSlash(p)))

\* os.path.join(a, b)
join(a, b) ==
    IF startswith(b, "/") THEN b
    ELSE IF a = "" \/ endswith(a, "/") THEN a \o b
    ELSE a \o "/" \o b

RECURSIVE NormComps(_, _, _)
\* the loop of posixpath.normpath over the components
NormComps(comps, new, initial) ==
    IF comps = <<>> THEN new
    ELSE IF Head(comps) = "" \/ Head(comps) = "." THEN NormComps(Tail(comps), new, initial)
    ELSE IF Head(comps) # ".." \/ (initial = 0 /\ new = <<>>)
            \/ (new # <<>> /\ new[Len(new)] = "..")
         THEN NormComps(Tail(comps), Append(new, Head(comps)), initial)
    ELSE IF new # <<>>
         THEN NormComps(Tail(comps), SubSeq(new, 1, Len(new) - 1), initial)
    ELSE NormComps(Tail(comps), new, initial)

DotIfEmpty(s) == IF s = "" THEN "." ELSE s

\* os.path.normpath(path); `initial` is the number of leading slashes kept
normpath(path) ==
    LET With(initial) ==
            DotIfEmpty((IF initial = 2 THEN "//" ELSE IF initial = 1 THEN "/" ELSE "")
                       \o JoinSlash(NormComps(split(path), <<>>, initial)))
    IN  IF path = "" THEN "."
        ELSE With(IF ~startswith(path, "/") THEN 0
                  ELSE IF startswith(path, "//") /\ ~startswith(path, "///") THEN 2
                  ELSE 1)

\* os.getcwd(): the directory kibot is started in
Cwd == "/w"

abspath(p) == normpath(join(Cwd, p))

RECURSIVE CommonLen(_, _)
\* len(commonprefix([a, b])) on lists of components
CommonLen(a, b) ==
    IF a = <<>> \/ b = <<>> \/ Head(a) # Head(b) THEN 0
    ELSE 1 + CommonLen(Tail(a), Tail(b))

\* os.path.relpath(path, start)
relpath(path, start) ==
    LET Comps(p) == SelectSeq(split(abspath(p)), LAMBDA x : x # "")
        Rel(start_list, path_list, i) ==
            DotIfEmpty(JoinSlash([k \in 1..(Len(start_list) - i) |-> ".."]
                                 \o SubSeq(path_list, i + 1, Len(path_list))))
        Of(start_list, path_list) ==
            Rel(start_list, path_list, CommonLen(start_list, path_list))
    IN  Of(Comps(start), Comps(path))

(***************************************************************************)
(* fnmatch and re (the subset of each syntax the specs below use)          *)
(***************************************************************************)
RECURSIVE fnmatch(_, _)
\* fnmatch.fnmatchcase(name, pat): `*` any run of characters, `?` any one
\* character, anything else itself; the whole name must match
fnmatch(name, pat) ==
    IF pat = "" THEN name = ""
    ELSE IF Head(pat) = "*"
         THEN fnmatch(name, Tail(pat)) \/ (name # "" /\ fnmatch(Tail(name), pat))
    ELSE name # "" /\ (Head(pat) = "?" \/ Head(pat) = Head(name))
                   /\ fnmatch(Tail(name), Tail(pat))

RECURSIVE re_match(_, _)
\* re.compile(pat).match(s): an atom is `.` (any character), `\c` (the
\* character c) or a plain character, optionally followed by `*`; the
\* pattern is anchored at the start of s only
re_match(pat, s) ==
    IF pat = "" THEN TRUE
    ELSE LET esc   == Head(pat) = "\\"
             alen  == IF esc THEN 2 ELSE 1
             star  == Len(pat) > alen /\ Ch(pat, alen + 1) = "*"
             after == SubSeq(pat, alen + (IF star THEN 2 ELSE 1), Len(pat))
             hit   == s # "" /\ (IF esc THEN Head(s) = Ch(pat, 2)
                                 ELSE Head(pat) = "." \/ Head(pat) = Head(s))
         IN  IF star THEN re_match(after, s) \/ (hit /\ re_match(pat, Tail(s)))
             ELSE hit /\ re_match(after, Tail(s))

(***************************************************************************)
(* The file system.  F maps the absolute normalised path of every regular  *)
(* file and symbolic link to [kind, data]: the content of a file, the      *)
(* target text of a link.  D is the set of directories.  Directories are   *)
(* never symbolic links.                                                   *)
(***************************************************************************)
Key(p) == abspath(p)

RECURSIVE FollowKey(_, _, _)
\* the path os.stat reaches from the normalised path k, following symbolic links
FollowKey(F, k, n) ==
    IF n > 0 /\ k \in DOMAIN F /\ F[k].kind = "link"
    THEN FollowKey(F, Key(join(dirname(k), F[k].data)), n - 1)
    ELSE k

\* os.path.realpath(p)
realpath(F, p) == FollowKey(F, Key(p), Cardinality(DOMAIN F))

IsFileKey(F, k) == k \in DOMAIN F /\ F[k].kind = "file"

IsLinkKey(F, k) == k \in DOMAIN F /\ F[k].kind = "link"

InTree(F, D, k) == k \in DOMAIN F \/ k \in D

lexists(F, D, p) == InTree(F, D, Key(p))

isfile(F, p) == IsFileKey(F, realpath(F, p))

islink(F, p) == IsLinkKey(F, Key(p))

isdir(F, D, p) == realpath(F, p) \in D

\* os.path.exists: os.stat succeeds
exists(F, D, p) == InTree(F, D, realpath(F, p)) /\ ~IsLinkKey(F, realpath(F, p))

\* os.path.samefile(a, b) when both os.stat calls succeed
samefile(F, a, b) == realpath(F, a) = realpath(F, b)

RECURSIVE Prefixes(_)
\* p and every prefix of it os.makedirs walks through
Prefixes(p) == IF p = dirname(p) THEN {p} ELSE {p} \cup Prefixes(dirname(p))

\* the directories os.makedirs(p) makes sure of
Chain(p) == {Key(a) : a \in Prefixes(join(Cwd, p))}

\* os.makedirs(p) succeeds unless a component is a file
makedirs_ok(F, p) == Chain(p) \cap DOMAIN F = {}

makedirs(D, p) == D \cup Chain(p)

\* os.remove(p)
remove(F, p) == [q \in DOMAIN F \ {Key(p)} |-> F[q]]

Put(F, k, node) == [q \in DOMAIN F \cup {k} |-> IF q = k THEN node ELSE F[q]]

\* os.symlink(target, p)
symlink(F, target, p) == Put(F, Key(p), [kind |-> "link", data |-> target])

\* shutil.copy2(src, dst): into the directory dst when dst is one
copy2_dst(F, D, src, dst) == IF isdir(F, D, dst) THEN join(dst, basename(src)) ELSE dst

\* shutil.copy2(src, dst) succeeds: the file at s can be written to d
copy2_ok(F, D, src, dst) ==
    LET Can(s, d) == IsFileKey(F, s) /\ s # d /\ d \notin D /\ dirname(d) \in D
    IN  Can(realpath(F, src), realpath(F, copy2_dst(F, D, src, dst)))

copy2(F, D, src, dst) ==
    Put(F, realpath(F, copy2_dst(F, D, src, dst)),
        [kind |-> "file", data |-> F[realpath(F, src)].data])

(***************************************************************************)
(* glob.iglob(pathname, recursive=True), for patterns without `**`         *)
(***************************************************************************)
\* every file and directory name of the model, in directory-listing order
Names == <<"a.csv", "b.csv", "c.txt", "d", "e.csv", "o", "x", "y", "m", "x.bin", "y.bin",
           "w", "k", "t", "3d", "3dx", "s", "p.step", "p.wrl", "a.step", "q.wrl", "z.wrl",
           "b.pcb", "b.pro", "b.sch", "prj", "3d_models", "footprints", "symbols",
           "L.pretty", "R1.kicad_mod", "S.kicad_sym", "fp-lib-table", "sym-lib-table",
           "j.kibot.yaml", "k.kibot.yaml">>

has_magic(s) == \E i \in 1..Len(s) : Ch(s, i) \in {"*", "?", "["}

ishidden(s) == startswith(s, ".")

\* _listdir(dirname, dironly): os.scandir of the directory, nothing when it
\* is none; with dironly the entries that are directories
listdir(F, D, dir, dironly) ==
    LET Listed(c) == IF dironly THEN FollowKey(F, c, Cardinality(DOMAIN F)) \in D
                     ELSE InTree(F, D, c)
        Scan(k) == IF k \notin D THEN <<>>
                   ELSE SelectSeq(Names, LAMBDA n : Listed(join(k, n)))
    IN  Scan(realpath(F, IF dir = "" THEN "." ELSE dir))

glob1(F, D, dir, pattern, dironly) ==
    SelectSeq(listdir(F, D, dir, dironly), LAMBDA n :
        /\ (ishidden(pattern) \/ ~ishidden(n))
        /\ fnmatch(n, pattern))

glob0(F, D, dir, base, dironly) ==
    IF base # ""
    THEN (IF lexists(F, D, join(dir, base)) THEN <<base>> ELSE <<>>)
    ELSE (IF isdir(F, D, dir) THEN <<base>> ELSE <<>>)

RECURSIVE GlobIn(_, _, _, _, _)
\* the loop of glob._iglob over the directories dirs: in each, the names
\* that the last component bn stands for, joined to the directory
GlobIn(F, D, dirs, bn, dironly) ==
    LET Joined(d, names) == [k \in 1..Len(names) |-> join(d, names[k])]
        InDir(d) == Joined(d, IF has_magic(bn) THEN glob1(F, D, d, bn, dironly)
                              ELSE glob0(F, D, d, bn, dironly))
    IN  IF dirs = <<>> THEN <<>>
        ELSE InDir(Head(dirs)) \o GlobIn(F, D, Tail(dirs), bn, dironly)

RECURSIVE iglob_(_, _, _, _)
\* glob._iglob(pathname, root_dir=None, recursive=True, dironly), pathname = dn/bn
iglob_(F, D, pathname, dironly) ==
    LET In(dn, bn) ==
            IF ~has_magic(pathname)
            THEN (IF bn # ""
                  THEN (IF lexists(F, D, pathname) THEN <<pathname>> ELSE <<>>)
                  ELSE (IF isdir(F, D, dn) THEN <<pathname>> ELSE <<>>))
            ELSE GlobIn(F, D,
                        IF dn = "" THEN <<"">>
                        ELSE IF dn # pathname /\ has_magic(dn) THEN iglob_(F, D, dn, TRUE)
                        ELSE <<dn>>,
                        bn, dironly)
    IN  In(dirname(pathname), basename(pathname))

\* glob.iglob(pathname, recursive=True)
iglob(F, D, pathname) == iglob_(F, D, pathname, FALSE)

(***************************************************************************)
(* sorted                                                                  *)
(***************************************************************************)
\* the characters of the paths, in the order of their code points
Alphabet == " $+-./0123456789<>ABCDEFGHIJKLMNOPQRSTUVWXYZ_abcdefghijklmnopqrstuvwxyz{}"

RECURSIVE StrLess(_, _)
\* a < b for two str
StrLess(a, b) ==
    LET Ord(c) == CHOOSE i \in 1..Len(Alphabet) : Ch(Alphabet, i) = c
    IN  IF b = "" THEN FALSE
        ELSE IF a = "" THEN TRUE
        ELSE IF Head(a) = Head(b) THEN StrLess(Tail(a), Tail(b))
        ELSE Ord(Head(a)) < Ord(Head(b))

RECURSIVE sorted(_)
\* sorted(q) for a list of str
sorted(q) ==
    LET Insert(x, r) ==
            (LET n == Cardinality({k \in 1..Len(r) : StrLess(r[k], x)})
             IN  SubSeq(r, 1, n) \o <<x>> \o SubSeq(r, n + 1, Len(r)))
    IN  IF q = <<>> THEN <<>> ELSE Insert(Head(q), sorted(Tail(q)))
(***************************************************************************)
(* The project kibot runs on, and its registry of outputs                  *)
(***************************************************************************)
\* GS.out_dir = os.path.join(os.getcwd(), args.out_dir)
OutDir == join(Cwd, "o")

PcbFile == "/w/b.pcb"
PcbDir == "/w"
SchDir == "/w"
SchFiles == <<"/w/b.sch">>
ProFile == "/w/b.pro"

\* KiConf.models_3d_dir and KiConf.party_3rd_dir ("" is None)
Models3dDir == "/k/3d"
Party3rdDir == ""

\* the 3D models the board references, expanded to file names
BoardModels == <<"/k/3d/s/p.wrl", "/k/3dx/a.step", "/w/q.wrl", "/r/z.wrl">>

\* a model that is no local file is downloaded to the temporary directory
TmpDir == "/t"

\* the footprints of the board (library nickname, item name), the footprint
\* library table (nickname -> uri) and the symbols of the schematic
BoardModules == << [lib |-> "M", name |-> "U1"], [lib |-> "L", name |-> "C9"],
                   [lib |-> "L", name |-> "R1"], [lib |-> "L", name |-> "R1"] >>
FpLibTable == [n \in {"L"} |-> "/k/L.pretty"]
LibSymbols == << [lib |-> "S", name |-> "R"], [lib |-> "", name |-> "X"] >>

FP_LIB_TABLE == "fp-lib-table"
SYM_LIB_TABLE == "sym-lib-table"

\* the copy_files outputs and the outputs that produce files for them
Consumers == {"c1", "c2"}
Producers == {"b1"}
Outputs == Consumers \cup Producers

\* what a producer's get_targets(out_dir) declares
Targets(out) == <<"/w/o/x.bin", "/w/o/y.bin">>

\* the file system kibot starts on
InitFiles ==
    [k \in {"/w/a.csv", "/w/b.csv", "/w/c.txt", "/w/d/e.csv", "/w/o/a.csv", "/a.csv",
            "/k/3d/s/p.wrl", "/k/3d/s/p.step", "/k/3dx/a.step", "/w/q.wrl",
            "/w/b.pcb", "/w/b.sch", "/w/b.pro", "/k/L.pretty/R1.kicad_mod"}
        |-> [kind |-> "file", data |-> k]]
InitDirs == {"/", "/w", "/w/d", "/w/o", "/k", "/k/3d", "/k/3d/s", "/k/3dx", "/k/L.pretty", "/t"}

None == "<None>"
EmptyMap == [k \in {} |-> ""]
NoErr == [kind |-> "none", code |-> "", file |-> "", out |-> ""]
ExitError(code, file, out) == [kind |-> "exit", code |-> code, file |-> file, out |-> out]
RaiseError(kind, what) == [kind |-> kind, code |-> "", file |-> what, out |-> ""]
Warning(code, a, b, c) == [code |-> code, a |-> a, b |-> b, c |-> c]
Entry(src, dst) == [src |-> src, dst |-> dst]

\* FilesList.__init__
FileSpec(source_type, source, filter, dest, save_pcb) ==
    [source_type |-> source_type, source |-> source, filter |-> filter,
     dest |-> dest, save_pcb |-> save_pcb]
InitSpecState == [append_mode |-> FALSE, output_dir |-> ""]

(***************************************************************************)
(* A world w is what a resolution pass reads and writes: the file system   *)
(* (F, D), the outputs' done flags and execution counts, the temporaries   *)
(* of the 3D options, the state kept on each FileSpec, the warnings logged *)
(* and the error that ended the pass, if any.  A pass over one FileSpec    *)
(* hands on r = [list, extra, w]: the candidates, the extra files and the  *)
(* world.                                                                  *)
(***************************************************************************)
Failed(w) == w.err.kind # "none"

WriteFile(w, path, data) ==
    [w EXCEPT !.F = Put(@, Key(path), [kind |-> "file", data |-> data])]

MakeDirs(w, path) == [w EXCEPT !.D = makedirs(@, path)]

Warn(w, code, a, b, c) == [w EXCEPT !.warn = Append(@, Warning(code, a, b, c))]

\* kiplot.run_output(out): run it and mark it done; `made` are the targets
\* this execution writes
run_output(w, out, made) ==
    [w EXCEPT !.F = [k \in DOMAIN @ \cup made |->
                        IF k \in made THEN [kind |-> "file", data |-> out] ELSE @[k]],
              !.done[out] = TRUE,
              !.exec[out] = @ + 1]

\* line 114 without the test of _done
MustRun_always(w, out) == TRUE

\* may this request run the producer?  (line 114)
MustRun(w, out) == ~w.done[out]

\* line 117 without the second test
StillMissing_never(F, file) == FALSE

\* is the target missing after that?  (line 117)
StillMissing(F, file) == ~isfile(F, file)

RECURSIVE CheckTargets_eager(_, _, _, _)
\* lines 111-119 without the test of line 112
CheckTargets_eager(w, out, files_list, made) ==
    LET Trigger(x, file) == IF MustRun(x, out) THEN run_output(x, out, made) ELSE x
        Recheck(x, file) ==
            IF StillMissing(x.F, file)
            THEN [x EXCEPT !.err = ExitError("INTERNAL_ERROR", file, out)]
            ELSE x
    IN  IF files_list = <<>> \/ Failed(w) THEN w
        ELSE CheckTargets_eager(Recheck(Trigger(w, Head(files_list)), Head(files_list)),
                                out, Tail(files_list), made)

RECURSIVE CheckTargets(_, _, _, _)
\* the loop of get_from_output over files_list (lines 111-119): a target
\* that is no file triggers the producer; one still missing ends the process
CheckTargets(w, out, files_list, made) ==
    LET Trigger(x, file) ==
            IF ~isfile(x.F, file) /\ MustRun(x, out) THEN run_output(x, out, made) ELSE x
        Recheck(x, file) ==
            IF StillMissing(x.F, file)
            THEN [x EXCEPT !.err = ExitError("INTERNAL_ERROR", file, out)]
            ELSE x
    IN  IF files_list = <<>> \/ Failed(w) THEN w
        ELSE CheckTargets(Recheck(Trigger(w, Head(files_list)), Head(files_list)),
                          out, Tail(files_list), made)

\* line 108 with the error level of line 119
UnknownOutput_internal(w, from_output) ==
    [w EXCEPT !.err = ExitError("INTERNAL_ERROR", "", from_output)]

\* line 108: no output of that name is registered
UnknownOutput(w, from_output) ==
    [w EXCEPT !.err = ExitError("WRONG_ARGUMENTS", "", from_output)]

\* Copy_FilesOptions.get_from_output(f, no_out_run)
get_from_output(w, f, no_out_run, made) ==
    IF f.source \notin Producers
    THEN [list |-> <<>>, extra |-> <<>>, renamed |-> <<>>, w |-> UnknownOutput(w, f.source)]
    ELSE [list |-> Targets(f.source), extra |-> <<>>, renamed |-> <<>>,
          w |-> IF no_out_run THEN w
                ELSE CheckTargets(w, f.source, Targets(f.source),
                                  made \cap Range(Targets(f.source)))]

\* lines 284-289 of get_files: the base directories of the 3D models
rel_dirs ==
    (IF Models3dDir # "" THEN <<normpath(join(PcbDir, Models3dDir))>> ELSE <<>>)
    \o (IF Party3rdDir # "" THEN <<normpath(join(PcbDir, Party3rdDir))>> ELSE <<>>)
    \o <<PcbDir>>

\* is fname below the base directory d?  (line 326)
UnderBase(fname, d) == startswith(fname, d)

\* FilesList.apply_rename(fname): the name the saved board gives the model
apply_rename(f, st, fname) ==
    LET Rel(k) == IF k = 0 THEN basename(fname) ELSE relpath(fname, rel_dirs[k])
        Dest == IF f.dest # "" /\ ~st.append_mode THEN basename(fname)
                ELSE Rel(FirstOr0({k \in 1..Len(rel_dirs) : startswith(fname, rel_dirs[k])}))
    IN  "${KIPRJMOD}/" \o join(st.output_dir, Dest)

\* Base3DOptions.download_models(rename_filter=f.source, ...): the board's
\* models whose name matches the pattern, each downloaded to a temporary
\* file when it is no local file; remove_temporals deletes the temporaries
download_models(w, f, st) ==
    LET TmpName(m) == join(TmpDir, basename(m))
        Local(m) == IF isfile(w.F, m) THEN m ELSE TmpName(m)
        Fetch(wanted) ==
            [list |-> [k \in 1..Len(wanted) |-> Local(wanted[k])],
             extra |-> <<>>,
             renamed |-> [k \in 1..Len(wanted) |->
                             [fname |-> Local(wanted[k]),
                              to |-> apply_rename(f, st, Local(wanted[k]))]],
             w |-> [w EXCEPT
                      !.F = [k \in DOMAIN @ \cup {TmpName(m) : m \in {m \in Range(wanted) :
                                                                        ~isfile(w.F, m)}}
                                |-> IF k \in DOMAIN @ THEN @[k]
                                    ELSE [kind |-> "file", data |-> "download"]],
                      !.tmp = @ \cup {TmpName(m) : m \in {m \in Range(wanted) :
                                                            ~isfile(w.F, m)}}]]
    IN  Fetch(SelectSeq(BoardModels, LAMBDA m : fnmatch(m, f.source)))

\* Base3DOptions.remove_temporals
remove_temporals(F, tmp) == [k \in DOMAIN F \ tmp |-> F[k]]

\* GS.create_fp_lib(lib_name): the name of the library directory
create_fp_lib(lib_name) ==
    IF endswith(lib_name, ".pretty") THEN lib_name ELSE lib_name \o ".pretty"

RECURSIVE FootprintLoop(_, _, _)
\* the loop of copy_footprints over GS.get_modules() (lines 127-151);
\* a = [extra, added, aliases, w], aliases the nicknames in the order entered
FootprintLoop(a, mods, out_lib_base) ==
    LET Add(b, lib_nick, name, footprint_src, footprint_dst) ==
            IF ~isfile(b.w.F, footprint_src)
            THEN [b EXCEPT !.w = Warn(@, "W_MISSCMP", name, lib_nick, "")]
            ELSE IF footprint_src \notin b.added
            THEN [b EXCEPT !.extra = Append(@, Entry(footprint_src, footprint_dst)),
                           !.added = @ \cup {footprint_src}]
            ELSE b
        Alias(lib_nick) ==
            [a EXCEPT !.aliases = IF lib_nick \in Range(@) THEN @ ELSE Append(@, lib_nick)]
        Of(m) ==
            IF m.lib \notin DOMAIN FpLibTable
            THEN [a EXCEPT !.w = Warn(@, "W_MISSLIB", m.lib, "", "")]
            ELSE Add(Alias(m.lib), m.lib, m.name, join(FpLibTable[m.lib], m.name \o ".kicad_mod"),
                     join(create_fp_lib(join(out_lib_base, m.lib)), m.name \o ".kicad_mod"))
    IN  IF mods = <<>> THEN a
        ELSE FootprintLoop(Of(Head(mods)), Tail(mods), out_lib_base)

\* lines 152-156 with the table entered before the footprints
copy_footprints_first(w, odir, dest, dry) ==
    LET Table(a, table_fname) ==
            [extra |-> <<Entry(None, table_fname)>> \o a.extra,
             w |-> IF dry THEN a.w
                   ELSE WriteFile(a.w, table_fname, FP_LIB_TABLE \o ":" \o JoinSlash(a.aliases))]
    IN  Table(FootprintLoop([extra |-> <<>>, added |-> {}, aliases |-> <<>>, w |-> w],
                            BoardModules, join(join(odir, dest), "footprints")),
              join(join(odir, dest), FP_LIB_TABLE))

\* Copy_FilesOptions.copy_footprints(dest, dry): [extra, w]; the table
\* KiConf.save_fp_lib_aliases writes is kept as the nicknames of its aliases
copy_footprints(w, odir, dest, dry) ==
    LET Table(a, table_fname) ==
            [extra |-> Append(a.extra, Entry(None, table_fname)),
             w |-> IF dry THEN a.w
                   ELSE WriteFile(a.w, table_fname, FP_LIB_TABLE \o ":" \o JoinSlash(a.aliases))]
    IN  Table(FootprintLoop([extra |-> <<>>, added |-> {}, aliases |-> <<>>, w |-> w],
                            BoardModules, join(join(odir, dest), "footprints")),
              join(join(odir, dest), FP_LIB_TABLE))

\* the libraries of GS.sch.lib_symbol_names but `locally_edited`, in first-use order
SymbolLibs ==
    LET lib(i) == LibSymbols[i].lib
        first == {i \in 1..Len(LibSymbols) : lib(i) # "" /\ \A j \in 1..(i - 1) : lib(j) # lib(i)}
    IN  [k \in 1..Cardinality(first) |->
            lib(CHOOSE i \in first : Cardinality({j \in first : j < i}) = k - 1)]

RECURSIVE WriteLibs(_, _, _)
\* GS.sch.write_lib(out_lib_base, lib, comps) for every library
WriteLibs(w, libs, out_lib_base) ==
    IF libs = <<>> THEN w
    ELSE WriteLibs(WriteFile(MakeDirs(w, out_lib_base),
                             join(out_lib_base, Head(libs) \o ".kicad_sym"), "symbols"),
                   Tail(libs), out_lib_base)

\* lines 158-193 without the loop of lines 173-175: a dry pass names the table only
copy_symbols_table(w, odir, dest, dry) ==
    LET Table(out_lib_base, table_fname) ==
            [extra |-> <<Entry(None, table_fname)>>
                       \o (IF dry THEN <<>>
                           ELSE [k \in 1..Len(SymbolLibs) |->
                                    Entry(None, join(out_lib_base, SymbolLibs[k] \o ".kicad_sym"))]),
             w |-> IF dry THEN w
                   ELSE WriteFile(WriteLibs(w, SymbolLibs, out_lib_base), table_fname,
                                  SYM_LIB_TABLE)]
    IN  Table(join(join(odir, dest), "symbols"), join(join(odir, dest), SYM_LIB_TABLE))

\* Copy_FilesOptions.copy_symbols(dest, dry): [extra, w]
copy_symbols(w, odir, dest, dry) ==
    LET Table(out_lib_base, table_fname) ==
            [extra |-> <<Entry(None, table_fname)>>
                       \o [k \in 1..Len(SymbolLibs) |->
                              Entry(None, join(out_lib_base, SymbolLibs[k] \o ".kicad_sym"))],
             w |-> IF dry THEN w
                   ELSE WriteFile(WriteLibs(w, SymbolLibs, out_lib_base), table_fname,
                                  SYM_LIB_TABLE)]
    IN  Table(join(join(odir, dest), "symbols"), join(join(odir, dest), SYM_LIB_TABLE))

\* Copy_FilesOptions.add_sch_files(files, dest_dir)
add_sch_files(dest_dir) ==
    [k \in 1..Len(SchFiles) |-> Entry(None, join(dest_dir, relpath(SchFiles[k], SchDir)))]

\* lines 204-214 of get_3d_models: what a pass leaves on the FileSpec
ModelSpecState(prev, f, mode_project) ==
    IF mode_project THEN [append_mode |-> TRUE, output_dir |-> "3d_models"]
    ELSE IF f.dest # "" /\ endswith(f.dest, "+")
    THEN [append_mode |-> TRUE, output_dir |-> SubSeq(f.dest, 1, Len(f.dest) - 1)]
    ELSE [append_mode |-> FALSE, output_dir |-> f.dest]

\* os.makedirs(dest_dir, exist_ok=True) of line 225, whatever `dry` is
MakeProjectDir(w, dest_dir, dry) == MakeDirs(w, dest_dir)

RECURSIVE SaveAll(_, _, _)
\* GS.sch.save_variant(dest_dir): the schematic files are written
SaveAll(w, entries, data) ==
    IF entries = <<>> THEN w
    ELSE SaveAll(WriteFile(w, Head(entries).dst, data), Tail(entries), data)

\* GS.copy_project(fname, dry): the project file is copied next to the
\* saved board unless dry, and named
copy_project(r, dry, dest_dir) ==
    [r EXCEPT !.w = IF dry \/ ~isfile(r.w.F, ProFile) THEN @
                    ELSE WriteFile(@, join(dest_dir, basename(ProFile)), "project"),
              !.extra = @ \o <<Entry(None, join(dest_dir, basename(PcbFile)))>>
                        \o (IF isfile(r.w.F, ProFile)
                            THEN <<Entry(None, join(dest_dir, basename(ProFile)))>>
                            ELSE <<>>)]

\* lines 221-254 of get_3d_models: the board, the project and, in project
\* mode, the schematic, the footprints and the symbols, saved in dest_dir
SaveProject(r, f, mode_project, dry, odir, dest_dir) ==
    LET With(x, a) == [x EXCEPT !.extra = @ \o a.extra, !.w = a.w]
        Dir(x) == IF mode_project THEN [x EXCEPT !.w = MakeProjectDir(@, dest_dir, dry)] ELSE x
        Board(x) ==
            [x EXCEPT !.w = IF dry THEN @
                            ELSE SaveAll(WriteFile(@, join(dest_dir, basename(PcbFile)), "board"),
                                         IF mode_project THEN add_sch_files(dest_dir) ELSE <<>>,
                                         "schematic"),
                      !.extra = @ \o (IF mode_project THEN add_sch_files(dest_dir) ELSE <<>>)]
        Footprints(x) == With(x, copy_footprints(x.w, odir, f.dest, dry))
        Symbols(x) == With(x, copy_symbols(x.w, odir, f.dest, dry))
        Libs(x) == IF mode_project THEN Symbols(Footprints(x)) ELSE x
    IN  IF f.save_pcb \/ mode_project
        THEN Libs(copy_project(Board(Dir(r)), dry, dest_dir))
        ELSE r

\* lines 260-270 without the os.path.isfile tests
Counterparts_unchecked(F, files_list) ==
    LET Other(fn) ==
            IF endswith(fn, ".wrl") THEN SubSeq(fn, 1, Len(fn) - 4) \o ".step"
            ELSE IF endswith(fn, ".step") THEN SubSeq(fn, 1, Len(fn) - 5) \o ".wrl"
            ELSE None
    IN  SelectSeq([k \in 1..Len(files_list) |-> Other(files_list[k])],
                  LAMBDA o : o # None /\ o \notin Range(files_list))

\* lines 260-270 of get_3d_models: new_list, the step/wrl counterparts
Counterparts(F, files_list) ==
    LET Other(fn) ==
            IF endswith(fn, ".wrl") THEN SubSeq(fn, 1, Len(fn) - 4) \o ".step"
            ELSE IF endswith(fn, ".step") THEN SubSeq(fn, 1, Len(fn) - 5) \o ".wrl"
            ELSE None
    IN  SelectSeq([k \in 1..Len(files_list) |-> Other(files_list[k])],
                  LAMBDA o : o # None /\ isfile(F, o) /\ o \notin Range(files_list))

\* Copy_FilesOptions.get_3d_models(f, mode_project, dry), f the i-th spec
get_3d_models(w, i, f, mode_project, dry, odir) ==
    LET Add(r) ==
            [r EXCEPT !.list = @ \o SelectSeq(Counterparts(r.w.F, @),
                                              LAMBDA fn : fnmatch(fn, f.source))]
        OutputDir(r) ==
            IF mode_project THEN [r EXCEPT !.w.sst[i].output_dir = join(f.dest, @)] ELSE r
    IN  OutputDir(Add(SaveProject(
            download_models([w EXCEPT !.sst[i] = ModelSpecState(@, f, mode_project)], f,
                            ModelSpecState(w.sst[i], f, mode_project)),
            f, mode_project, dry, odir, IF mode_project THEN join(odir, f.dest) ELSE odir)))

\* lines 318-334 with os.path.basename in the place of os.path.relpath
DestOf_flat(f, st, fname, src_dir) ==
    IF f.dest # "" /\ ~st.append_mode THEN join(f.dest, basename(fname))
    ELSE IF st.append_mode THEN join(st.output_dir, basename(fname))
    ELSE basename(fname)

\* lines 318-334 of get_files: the destination of candidate fname
DestOf(f, st, fname, src_dir) ==
    LET Rel(k) == IF k = 0 THEN basename(fname) ELSE relpath(fname, rel_dirs[k])
        Model(dest) == IF st.append_mode THEN join(st.output_dir, dest) ELSE dest
    IN  IF f.dest # "" /\ ~st.append_mode THEN join(f.dest, basename(fname))
        ELSE IF f.source_type \in {"3d_models", "project"} /\ isabs(fname)
        THEN Model(Rel(FirstOr0({k \in 1..Len(rel_dirs) : UnderBase(fname, rel_dirs[k])})))
        ELSE relpath(fname, src_dir)

VARIABLE ki6                \* GS.ki6: is this KiCad 6 or newer?

\* line 294 without the test of GS.ki6
Ki6_any == TRUE

\* GS.ki6: the project mode needs KiCad 6 or newer
Ki6 == ki6

\* Copy_FilesOptions.config: an output without `files` is refused
config(w, specs) ==
    IF specs = <<>> THEN [w EXCEPT !.err = RaiseError("KiPlotConfigurationError", "No files provided")]
    ELSE w

\* line 292
SrcDir(f) == IF f.source_type \in {"out_files", "output"} THEN OutDir ELSE Cwd

\* lines 298-312 of get_files: the candidates of the i-th spec f
Candidates(w, i, f, no_out_run, odir, made) ==
    IF f.source_type = "output" THEN get_from_output(w, f, no_out_run, made)
    ELSE IF f.source_type \in {"3d_models", "project"}
    THEN get_3d_models(w, i, f, f.source_type = "project", no_out_run, odir)
    ELSE [list |-> iglob(w.F, w.D, join(SrcDir(f), f.source)), extra |-> <<>>,
          renamed |-> <<>>, w |-> w]

\* lines 337-343 testing the destination of a (source, destination) pair
Tested_dst(e) == e.dst

\* lines 337-343: the path of an extra file the filter is tested on
Tested(e) == IF e.src = None THEN e.dst ELSE e.src

\* one iteration of the loop of get_files over self.files (lines 291-343);
\* g = [files, segs, w], and segs[i] keeps what the i-th spec gave: the
\* entries of its candidates, their names, its extra files, and the file
\* system and the outputs it met
ResolveSpec(g, i, f, no_out_run, odir, follow_links, made) ==
    LET Adapted(r, list) ==
            [k \in 1..Len(list) |->
                Entry(IF follow_links THEN realpath(r.w.F, list[k]) ELSE abspath(list[k]),
                      DestOf(f, r.w.sst[i], list[k], SrcDir(f)))]
        Extras(r) == SelectSeq(r.extra, LAMBDA e : re_match(f.filter, Tested(e)))
        Seg(found, extra, renamed, names) ==
            [found |-> found, extra |-> extra, renamed |-> renamed, names |-> names,
             F |-> g.w.F, D |-> g.w.D, done |-> g.w.done, exec |-> g.w.exec]
        Gather(w, found, extra, renamed, names) ==
            [files |-> g.files \o found \o extra,
             segs |-> Append(g.segs, Seg(found, extra, renamed, names)), w |-> w]
        Passed(r, names) == Gather(r.w, Adapted(r, names), Extras(r), r.renamed, names)
        Adapt(r) ==
            IF Failed(r.w)
            THEN [g EXCEPT !.w = r.w, !.segs = Append(@, Seg(<<>>, <<>>, <<>>, <<>>))]
            ELSE Passed(r, SelectSeq(r.list, LAMBDA fname : re_match(f.filter, fname)))
    IN  IF f.source_type = "project" /\ ~Ki6
        THEN [g EXCEPT !.w.err = RaiseError("KiPlotConfigurationError", "project")]
        ELSE Adapt(Candidates(g.w, i, f, no_out_run, odir, made))

RECURSIVE FilesLoop(_, _, _, _, _, _, _)
FilesLoop(g, i, specs, no_out_run, odir, follow_links, made) ==
    IF i > Len(specs) \/ Failed(g.w) THEN g
    ELSE FilesLoop(ResolveSpec(g, i, specs[i], no_out_run, odir, follow_links, made),
                   i + 1, specs, no_out_run, odir, follow_links, made)

\* Copy_FilesOptions.get_files(no_out_run): [files, segs, w]
get_files(w, specs, no_out_run, odir, follow_links, made) ==
    FilesLoop([files |-> <<>>, segs |-> <<>>, w |-> w], 1, specs, no_out_run, odir,
              follow_links, made)

(***************************************************************************)
(* Copy_FilesOptions.run: the loop over the resolved entries.  A copy      *)
(* state s is [F, D, copied, warn, err, idx]: the file system, the dict    *)
(* `copied`, the warnings logged, the exception raised, if any, and the    *)
(* entry the loop is at.                                                   *)
(***************************************************************************)
Stopped(s) == s.err.kind # "none"

\* line 373 looking dest up among the sources kept in `copied`
Collides_values(cp, dest) == dest \in DOMAIN cp /\ dest \in {cp[d] : d \in DOMAIN cp}

\* was dest written before in this run?  (line 373)
Collides(cp, dest) == dest \in DOMAIN cp

\* line 377 comparing src with the directory of dest
SelfCopy_dir(F, D, src, dest) ==
    exists(F, D, src) /\ exists(F, D, dirname(dest)) /\ samefile(F, src, dirname(dest))

\* is copying src to dest copying a file over itself?  (lines 376-380:
\* samefile raises FileNotFoundError, which is passed over, when either is missing)
SelfCopy(F, D, src, dest) ==
    exists(F, D, src) /\ exists(F, D, dest) /\ samefile(F, src, dest)

\* lines 365-367 taking every entry for one to copy
Generated_never(e) == FALSE

\* is e a file that get_files generated itself?  (lines 365-367)
Generated(e) == e.src = None

\* one iteration of the loop (lines 364-387)
CopyEntry(s, e, link, output) ==
    LET \* lines 370-371
        MkDestDir(x, dest_dir) ==
            IF isdir(x.F, x.D, dest_dir) THEN x
            ELSE IF makedirs_ok(x.F, dest_dir) THEN [x EXCEPT !.D = makedirs(@, dest_dir)]
            ELSE [x EXCEPT !.err = RaiseError("OSError", dest_dir)]
        \* lines 373-375
        WarnOver(x, src, dest) ==
            IF ~Stopped(x) /\ Collides(x.copied, dest)
            THEN [x EXCEPT !.warn = Append(@, Warning("W_COPYOVER", src, x.copied[dest], dest))]
            ELSE x
        \* lines 376-380
        CheckSame(x, src, dest) ==
            IF ~Stopped(x) /\ SelfCopy(x.F, x.D, src, dest)
            THEN [x EXCEPT !.err = RaiseError("KiPlotConfigurationError", dest)]
            ELSE x
        \* lines 381-382
        RemoveOld(x, dest) ==
            IF ~Stopped(x) /\ (isfile(x.F, dest) \/ islink(x.F, dest))
            THEN [x EXCEPT !.F = remove(@, dest)]
            ELSE x
        \* lines 383-387
        LinkOrCopy(x, src, dest) ==
            IF Stopped(x) THEN x
            ELSE IF link
            THEN (IF lexists(x.F, x.D, dest) THEN [x EXCEPT !.err = RaiseError("OSError", dest)]
                  ELSE [x EXCEPT !.F = symlink(@, relpath(src, dirname(dest)), dest),
                                 !.copied = Put(@, dest, src)])
            ELSE IF ~copy2_ok(x.F, x.D, src, dest)
            THEN [x EXCEPT !.err = RaiseError("OSError", dest)]
            ELSE [x EXCEPT !.F = copy2(@, x.D, src, dest), !.copied = Put(@, dest, src)]
        Step(src, dest) ==
            LinkOrCopy(RemoveOld(CheckSame(WarnOver(MkDestDir(s, dirname(dest)), src, dest),
                                           src, dest),
                                 dest),
                       src, dest)
        \* on to the next entry, unless an exception ended the loop
        Advance(x) == IF Stopped(x) THEN x ELSE [x EXCEPT !.idx = @ + 1]
    IN  IF Generated(e) THEN Advance(s) ELSE Advance(Step(e.src, join(output, e.dst)))

RECURSIVE CopyLoop(_, _, _, _)
CopyLoop(s, list, link, output) ==
    IF s.idx > Len(list) \/ Stopped(s) THEN s
    ELSE CopyLoop(CopyEntry(s, list[s.idx], link, output), list, link, output)

\* lines 361-387 after the resolution g; nothing is copied when it failed
CopyAll(g, link, output) ==
    IF Failed(g.w)
    THEN [F |-> g.w.F, D |-> g.w.D, copied |-> EmptyMap, warn |-> g.w.warn, err |-> g.w.err,
          idx |-> 0]
    ELSE CopyLoop([F |-> g.w.F, D |-> g.w.D, copied |-> EmptyMap, warn |-> g.w.warn,
                   err |-> NoErr, idx |-> 1], g.files, link, output \o "/")

(***************************************************************************)
(* The state of one kibot process                                          *)
(***************************************************************************)
VARIABLES
    fsFiles, fsDirs,        \* the file system
    files,                  \* files[c]: the FileSpecs of copy_files output c
    link_no_copy,           \* link_no_copy[c], follow_links[c]: its options
    follow_links,
    sst,                    \* sst[c][i]: _append_mode and output_dir of files[c][i]
    output_dir,             \* output_dir[c]: self.output_dir of the options
    done,                   \* done[o]: the output's _done flag
    execCount,              \* execCount[o]: how often its run was entered
    temporals,              \* temporals[c]: files remove_temporals will delete
    pc,                     \* "idle", or "exited" once an error ended the process
    last,                   \* the last operation and the output it was on
    before,                 \* the file system and the outputs before it
    resolved,               \* the list its get_files returned
    returned,               \* what get_targets or get_dependencies returned
    segs,                   \* and what each spec gave to it
    idx,                    \* run: the entry the loop stopped at (0: never started)
    copied,                 \* run: the dict `copied`
    warnings,               \* the warnings it logged
    err,                    \* the error that ended the process
    args,                   \* main: the command line
    mpc,                    \* main: where it is
    outputs,                \* main: the outputs read from the configuration, in order
    queue,                  \* generate_outputs: the outputs still to run
    events,                 \* what main called and the outputs it ran, in order
    status,                 \* the exit status, "" while the process runs
    stack                   \* the passes of get_files under way, the innermost last

vars == <<ki6, stack, fsFiles, fsDirs, files, link_no_copy, follow_links, sst, output_dir, done,
          execCount, temporals, pc, last, before, resolved, returned, segs, idx, copied,
          warnings, err, args, mpc, outputs, queue, events, status>>

\* longest list of FileSpecs of an output
MaxSpecs == 2

\* the FileSpecs the outputs are configured from
SpecPool ==
    { FileSpec("files", "*.csv", ".*", "", FALSE),
      FileSpec("files", "*.csv", ".*", "x", FALSE),
      FileSpec("files", "*/*", ".*\\.csv", "", FALSE),
      FileSpec("files", "../a.csv", ".*", "", FALSE),
      FileSpec("out_files", "*.csv", ".*", "", FALSE),
      FileSpec("out_files", "*", ".*", "", FALSE),
      FileSpec("out_files", "*.csv", ".*", "x", FALSE),
      FileSpec("output", "b1", ".*x\\.bin", "x", FALSE),
      FileSpec("3d_models", "*", ".*", "m+", TRUE),
      FileSpec("project", "*", ".*", "prj", FALSE) }

RECURSIVE SeqsUpTo(_, _)
SeqsUpTo(S, n) ==
    IF n = 0 THEN {<<>>}
    ELSE SeqsUpTo(S, n - 1)
         \cup {Append(q, e) : q \in {q \in SeqsUpTo(S, n - 1) : Len(q) = n - 1}, e \in S}

\* Copy_FilesOptions.config: an output without files is refused
Configs == SeqsUpTo(SpecPool, MaxSpecs) \ {<<>>}

\* the second copy_files output takes what the producer makes
Configs2 == { <<FileSpec("output", "b1", ".*", "y", FALSE)>> }

\* get_output_dir(out.dir, out) of a copy_files output
RunDir(c) == OutDir

\* Copy_Files.__init__: self.priority = 11
CopyFilesPriority == 11

\* the priority of the outputs that are no copy_files outputs
OtherPriority == 50

\* docopt: the command line without options
NoArgs ==
    [banner |-> "", info |-> "", copy_options |-> FALSE, board_file |-> "",
     plot_config |-> "", list |-> FALSE, list_variants |-> FALSE, makefile |-> "",
     target |-> <<>>, invert_sel |-> FALSE, cli_order |-> FALSE, no_priority |-> FALSE]

\* an output as the configuration registers it
Registered(name, priority) == [name |-> name, priority |-> priority]

\* the process as one piece: the file system, the outputs, and generate_outputs
\* under way with the selection and the order of the targets left open
Started(F) ==
    /\ fsFiles = F
    /\ fsDirs = InitDirs
    /\ link_no_copy \in {[c \in Consumers |-> IF c = "c1" THEN b ELSE FALSE] : b \in BOOLEAN}
    /\ follow_links = [c \in Consumers |-> TRUE]
    /\ sst = [c \in Consumers |-> [i \in 1..Len(files[c]) |-> InitSpecState]]
    /\ output_dir = [c \in Consumers |-> ""]
    /\ done = [o \in Outputs |-> FALSE]
    /\ execCount = [o \in Outputs |-> 0]
    /\ temporals = [c \in Consumers |-> {}]
    /\ pc = "idle"
    /\ last = [op |-> "none", out |-> None]
    /\ before = [F |-> F, D |-> InitDirs, done |-> done, exec |-> execCount]
    /\ resolved = <<>>
    /\ returned = <<>>
    /\ segs = <<>>
    /\ idx = 0
    /\ copied = EmptyMap
    /\ warnings = <<>>
    /\ err = NoErr
    /\ events = <<>>
    /\ status = ""
    /\ stack = <<>>

World(c) ==
    [F |-> fsFiles, D |-> fsDirs, done |-> done, exec |-> execCount,
     tmp |-> temporals[c], sst |-> sst[c], err |-> NoErr, warn |-> <<>>]

Init ==
    /\ \E c1 \in Configs, c2 \in Configs2 : files = [c \in Consumers |-> IF c = "c1" THEN c1 ELSE c2]
    /\ Started(InitFiles)
    /\ args = NoArgs
    /\ ki6 = TRUE
    /\ mpc = "outputs"
    /\ outputs = <<Registered("b1", OtherPriority), Registered("c1", CopyFilesPriority),
                   Registered("c2", CopyFilesPriority)>>
    /\ queue = [open |-> TRUE, q |-> <<>>]

\* what a run of producer b may write: its targets up to the one it fails at
Makes(b) == {Range(SubSeq(Targets(b), 1, n)) : n \in 0..Len(Targets(b))}

\* the operation op on output o starts
Begin(op, o) ==
    /\ pc = "idle"
    /\ last' = [op |-> op, out |-> o]
    /\ before' = [F |-> fsFiles, D |-> fsDirs, done |-> done, exec |-> execCount]
    /\ UNCHANGED <<ki6, stack, files, link_no_copy, follow_links>>

\* generate_outputs: is it the turn of output o?
Scheduled(o) == mpc = "outputs" /\ (queue.open \/ (queue.q # <<>> /\ Head(queue.q) = o))

\* generate_outputs: output o was run, on to the next
Executed(o) ==
    /\ queue' = [queue EXCEPT !.q = IF queue.open THEN @ ELSE Tail(@)]
    /\ events' = Append(events, o)
    /\ UNCHANGED <<args, mpc, outputs, status>>

\* the orchestrator runs a producer that has not run yet
RunProducer(b) ==
    LET Ran(w) ==
            /\ fsFiles' = w.F
            /\ fsDirs' = w.D
            /\ done' = w.done
            /\ execCount' = w.exec
    IN  /\ Begin("produce", b)
        /\ Scheduled(b)
        /\ Executed(b)
        /\ ~done[b]
        /\ \E made \in Makes(b) : Ran(run_output(World("c1"), b, made))
        /\ UNCHANGED <<sst, output_dir, temporals, pc, resolved, returned, segs, idx, copied,
                       warnings, err>>

\* a dry pass g of get_files on output c ends
DryPass(c, g) ==
    /\ fsFiles' = g.w.F
    /\ fsDirs' = g.w.D
    /\ done' = g.w.done
    /\ execCount' = g.w.exec
    /\ temporals' = [temporals EXCEPT ![c] = g.w.tmp]
    /\ sst' = [sst EXCEPT ![c] = g.w.sst]
    /\ warnings' = g.w.warn
    /\ err' = g.w.err
    /\ pc' = IF Failed(g.w) THEN "exited" ELSE "idle"
    /\ resolved' = IF Failed(g.w) THEN <<>> ELSE g.files
    /\ segs' = g.segs
    /\ UNCHANGED <<idx, copied, args, mpc, outputs, queue, events, status>>

\* Copy_FilesOptions.get_dependencies(): a dry pass, the sources are returned;
\* an output is asked for its dependencies after it was asked for its targets
GetDependencies(c) ==
    LET Sources(g) ==
            sorted([k \in 1..Len(SelectSeq(g.files, LAMBDA e : e.src # None)) |->
                       SelectSeq(g.files, LAMBDA e : e.src # None)[k].src])
        Pass(g) ==
            /\ DryPass(c, g)
            /\ returned' = IF Failed(g.w) THEN <<>> ELSE Sources(g)
    IN  /\ Begin("dependencies", c)
        /\ mpc = "outputs"
        /\ queue.open
        /\ last = [op |-> "targets", out |-> c]
        /\ UNCHANGED output_dir
        /\ Pass(get_files(World(c), files[c], TRUE, output_dir[c], follow_links[c], {}))

\* Copy_FilesOptions.get_targets(out_dir): a dry pass, the destinations are returned
GetTargets(c) ==
    LET Pass(g) ==
            /\ DryPass(c, g)
            /\ returned' = IF Failed(g.w) THEN <<>>
                           ELSE sorted([k \in 1..Len(g.files) |-> join(RunDir(c), g.files[k].dst)])
    IN  /\ Begin("targets", c)
        /\ mpc = "outputs"
        /\ queue.open
        /\ output_dir' = [output_dir EXCEPT ![c] = RunDir(c)]
        /\ Pass(get_files(World(c), files[c], TRUE, RunDir(c), follow_links[c], {}))

\* Copy_Files.run and Copy_FilesOptions.run (lines 421-424 and 355-389):
\* g is the resolution, s the copy state the loop ended in; remove_temporals
\* (line 389) and the done flag are reached when no exception ended the run
Run(c) ==
    LET Ran(g, s) ==
            /\ fsFiles' = IF Stopped(s) THEN s.F ELSE remove_temporals(s.F, g.w.tmp)
            /\ fsDirs' = s.D
            /\ done' = IF Stopped(s) THEN g.w.done ELSE [g.w.done EXCEPT ![c] = TRUE]
            /\ execCount' = g.w.exec
            /\ temporals' = [temporals EXCEPT ![c] = IF Stopped(s) THEN g.w.tmp ELSE {}]
            /\ sst' = [sst EXCEPT ![c] = g.w.sst]
            /\ warnings' = s.warn
            /\ err' = s.err
            /\ pc' = IF Stopped(s) THEN "exited" ELSE "idle"
            /\ resolved' = IF Failed(g.w) THEN <<>> ELSE g.files
            /\ segs' = g.segs
            /\ idx' = s.idx
            /\ copied' = s.copied
            /\ returned' = <<>>
        Resolved(g) == Ran(g, CopyAll(g, link_no_copy[c], RunDir(c)))
        \* the producers the resolution may have to run
        Wanted ==
            {b \in Producers : ~done[b] /\ \E i \in 1..Len(files[c]) :
                files[c][i].source_type = "output" /\ files[c][i].source = b}
    IN  /\ Begin("run", c)
        /\ Scheduled(c)
        /\ Executed(c)
        /\ ~done[c]
        /\ (queue.open /\ c = "c2") => done["c1"]
        /\ output_dir' = [output_dir EXCEPT ![c] = RunDir(c)]
        /\ \E made \in (IF Wanted = {} THEN {{}} ELSE UNION {Makes(b) : b \in Wanted}) :
               Resolved(get_files(config([World(c) EXCEPT !.exec[c] = @ + 1], files[c]),
                                  files[c], FALSE, RunDir(c), follow_links[c], made))

Next ==
    \/ \E b \in Producers : RunProducer(b)
    \/ GetTargets("c1")
    \/ GetDependencies("c1")
    \/ \E c \in Consumers : Run(c)

Spec == Init /\ [][Next]_vars


(***************************************************************************)
(* main: from the command line to generate_outputs or generate_makefile    *)
(***************************************************************************)
\* the state of the outputs and of the file system
core == <<ki6, stack, fsFiles, fsDirs, files, link_no_copy, follow_links, sst, output_dir, done,
          execCount, temporals, pc, last, before, resolved, returned, segs, idx, copied,
          warnings, err>>

\* the lower priority value goes first
RunsFirst_lower(p, q) == p < q

\* which of two priorities goes first: 11 is the "low priority" that makes
\* copy_files "created after all the other outputs", the higher value goes first
RunsFirst(p, q) == p > q

\* sorted by priority, ties in the order of q
ByPriority(q) ==
    LET Rank(i) ==
            Cardinality({j \in 1..Len(q) :
                            \/ RunsFirst(q[j].priority, q[i].priority)
                            \/ (q[j].priority = q[i].priority /\ j < i)})
    IN  [k \in 1..Len(q) |-> q[CHOOSE i \in 1..Len(q) : Rank(i) = k - 1]]

\* the selection of generate_outputs: the targets (all outputs when none is
\* given, the others with invert), by priority unless -C or -n asks for the
\* order of the command line
select(outs, targets, invert, cli_order, no_priority) ==
    LET Named(n) == CHOOSE o \in Range(outs) : o.name = n
        Chosen == SelectSeq(outs, LAMBDA o : targets = <<>> \/ ((o.name \in Range(targets)) # invert))
        Given == IF targets # <<>> /\ ~invert
                 THEN [k \in 1..Len(targets) |-> Named(targets[k])]
                 ELSE Chosen
        Names_(q) == [k \in 1..Len(q) |-> q[k].name]
    IN  Names_(IF ~cli_order /\ ~no_priority THEN ByPriority(Chosen) ELSE Given)

\* the configuration files solve_config looks for
ConfigFiles == {"/w/k.kibot.yaml", "/w/j.kibot.yaml"}

\* the command lines main is started with; the usage admits one of -C, -i, -n
MainArgs ==
    {[NoArgs EXCEPT !.makefile = m, !.target = t, !.cli_order = (o = "C"),
                    !.no_priority = (o = "n")] :
        m \in {"", "Mk"},
        t \in {<<>>, <<"c1">>, <<"c1", "b1">>, <<"b1", "c1">>, <<"c2", "c1", "b1">>},
        o \in {"", "C", "n"}}
    \cup {[NoArgs EXCEPT !.target = <<"c2">>, !.invert_sel = TRUE],
          [NoArgs EXCEPT !.plot_config = "gone.yaml"],
          [NoArgs EXCEPT !.plot_config = "k.kibot.yaml", !.list = TRUE],
          [NoArgs EXCEPT !.list_variants = TRUE],
          [NoArgs EXCEPT !.banner = "x"],
          [NoArgs EXCEPT !.banner = "1", !.info = "help"],
          [NoArgs EXCEPT !.banner = "x", !.info = "help"],
          [NoArgs EXCEPT !.info = "example", !.copy_options = TRUE],
          [NoArgs EXCEPT !.info = "example", !.copy_options = TRUE, !.board_file = "b.pcb"],
          [NoArgs EXCEPT !.info = "quick_start"]}

\* the copy_files output the configurations main reads define
MainConfigs ==
    { <<FileSpec("output", "b1", ".*x\\.bin", "x", FALSE)>>,
      <<FileSpec("files", "*.csv", ".*", "", FALSE)>>,
      <<FileSpec("files", "*.csv", ".*", "", FALSE), FileSpec("output", "b9", ".*", "", FALSE)>>,
      <<FileSpec("3d_models", "*", ".*\\.wrl", "", TRUE)>>,
      <<FileSpec("3d_models", "*.wrl", ".*", "", FALSE)>>,
      <<FileSpec("3d_models", "*", ".*", "", FALSE)>>,
      <<FileSpec("project", "*", "/w/.*", "prj", FALSE)>>,
      <<FileSpec("3d_models", "*", ".*\\.wrl", "", TRUE), FileSpec("project", "*", "/w/.*", "prj", FALSE)>>,
      <<>> }

\* the outputs in the orders and with the priorities of those configurations
Registrations ==
    { <<Registered("b1", p), Registered("c1", CopyFilesPriority),
        Registered("c2", CopyFilesPriority)>> : p \in {CopyFilesPriority, OtherPriority} }
    \cup { <<Registered("c1", CopyFilesPriority), Registered("b1", p),
             Registered("c2", CopyFilesPriority)>> : p \in {CopyFilesPriority, OtherPriority} }

MainInit ==
    /\ files \in {[c \in Consumers |-> IF c = "c1" THEN c1 ELSE c2] :
                     c1 \in MainConfigs, c2 \in Configs2}
    /\ \E found \in SUBSET ConfigFiles :
           Started([k \in DOMAIN InitFiles \cup found |-> [kind |-> "file", data |-> k]])
    /\ link_no_copy["c1"] = FALSE
    /\ ki6 \in BOOLEAN
    /\ ~ki6 => (args = NoArgs /\ \E i \in 1..Len(files["c1"]) : files["c1"][i].source_type = "project")
    /\ args \in MainArgs
    /\ (Cardinality(DOMAIN fsFiles \cap ConfigFiles) # 1) => args = NoArgs
    /\ mpc = "start"
    /\ outputs = <<>>
    /\ queue = [open |-> FALSE, q |-> <<>>]

\* sys.exit(code)
Exit(code) ==
    /\ status' = code
    /\ mpc' = "exited"

\* lines 430-477 with every mode that prints leaving with status 0
MainInfo_ok ==
    /\ mpc = "start"
    /\ args.banner = "x" \/ args.info # ""
    /\ Exit(IF args.banner = "x" /\ args.info = "" THEN "EXIT_BAD_ARGS" ELSE "0")
    /\ events' = Append(events, IF args.banner = "x" THEN "banner" ELSE args.info)
    /\ UNCHANGED <<core, args, outputs, queue>>

\* lines 430-477: the banner and the modes that print and exit
MainInfo ==
    /\ mpc = "start"
    /\ args.banner = "x" \/ args.info # ""
    /\ Exit(IF args.banner = "x" THEN "EXIT_BAD_ARGS"
            ELSE IF args.info = "example" /\ args.copy_options /\ args.board_file = ""
            THEN "EXIT_BAD_ARGS"
            ELSE "0")
    /\ events' = Append(events, IF args.banner = "x" THEN "banner" ELSE args.info)
    /\ UNCHANGED <<core, args, outputs, queue>>

\* line 480 and solve_config (lines 211-230)
SolveConfig ==
    LET Found == iglob(fsFiles, fsDirs, "*.kibot.yaml") \o iglob(fsFiles, fsDirs, "*.kiplot.yaml")
                 \o iglob(fsFiles, fsDirs, "*.kibot.yaml.gz")
        Solved(plot_config, found) ==
            /\ IF plot_config = "" \/ ~isfile(fsFiles, plot_config)
               THEN Exit("EXIT_BAD_ARGS") /\ UNCHANGED args
               ELSE /\ args' = [args EXCEPT !.plot_config = plot_config]
                    /\ mpc' = "config"
                    /\ UNCHANGED status
            /\ warnings' = IF args.plot_config = "" /\ Len(found) > 1
                           THEN Append(warnings, Warning("W_VARCFG", plot_config, "", ""))
                           ELSE warnings
        Choose(found) ==
            Solved(IF args.plot_config # "" THEN args.plot_config
                   ELSE IF found # <<>> THEN found[1] ELSE "",
                   found)
    IN  /\ mpc = "start"
        /\ args.banner # "x" /\ args.info = ""
        /\ Choose(Found)
        /\ UNCHANGED <<ki6, stack, fsFiles, fsDirs, files, link_no_copy, follow_links, sst, output_dir,
                       done, execCount, temporals, pc, last, before, resolved, returned,
                       segs, idx, copied, err, outputs, queue, events>>

\* lines 482-509: the configuration is read and registers the outputs
ReadConfig ==
    /\ mpc = "config"
    /\ outputs' \in Registrations
    /\ events' = Append(events, "read_config")
    /\ mpc' = "loaded"
    /\ UNCHANGED <<core, args, queue, status>>

\* lines 512-519: --list and --list-variants
ListOutputs ==
    /\ mpc = "loaded"
    /\ args.list \/ args.list_variants
    /\ Exit("0")
    /\ events' = Append(events, "list")
    /\ UNCHANGED <<core, args, outputs, queue>>

\* generate_outputs: the preflights, then the outputs selected
generate_outputs ==
    /\ events' = events \o <<"generate_outputs", "preflights">>
    /\ mpc' = "outputs"
    /\ queue' = [open |-> FALSE,
                 q |-> select(outputs, args.target, args.invert_sel, args.cli_order,
                              args.no_priority)]
    /\ UNCHANGED fsFiles

\* generate_makefile: the makefile is written, nothing is run
generate_makefile ==
    /\ events' = Append(events, "generate_makefile")
    /\ mpc' = "totals"
    /\ fsFiles' = Put(fsFiles, Key(args.makefile), [kind |-> "file", data |-> "makefile"])
    /\ UNCHANGED queue

\* lines 521-527 without the test of args.makefile
Generate_outputs_too ==
    /\ mpc = "loaded"
    /\ ~args.list /\ ~args.list_variants
    /\ generate_outputs
    /\ UNCHANGED <<ki6, stack, fsDirs, files, link_no_copy, follow_links, sst, output_dir, done,
                   execCount, temporals, pc, last, before, resolved, returned, segs, idx,
                   copied, warnings, err, args, outputs, status>>

\* lines 521-527: only a makefile, or all the job
Generate ==
    /\ mpc = "loaded"
    /\ ~args.list /\ ~args.list_variants
    /\ IF args.makefile # "" THEN generate_makefile ELSE generate_outputs
    /\ UNCHANGED <<ki6, stack, fsDirs, files, link_no_copy, follow_links, sst, output_dir, done,
                   execCount, temporals, pc, last, before, resolved, returned, segs, idx,
                   copied, warnings, err, args, outputs, status>>

\* generate_outputs: an output that ran already is not run again
SkipDone(o) ==
    /\ pc = "idle"
    /\ Scheduled(o)
    /\ ~queue.open
    /\ done[o]
    /\ queue' = [queue EXCEPT !.q = Tail(@)]
    /\ UNCHANGED <<core, args, mpc, outputs, events, status>>

\* line 529: logger.log_totals(), and main returns
LogTotals ==
    /\ pc = "idle"
    /\ mpc = "totals" \/ (mpc = "outputs" /\ ~queue.open /\ queue.q = <<>>)
    /\ events' = Append(events, "log_totals")
    /\ mpc' = "done"
    /\ status' = "0"
    /\ UNCHANGED <<core, args, outputs, queue>>

MainNext ==
    \/ MainInfo
    \/ SolveConfig
    \/ ReadConfig
    \/ ListOutputs
    \/ Generate
    \/ \E o \in Outputs : SkipDone(o)
    \/ \E b \in Producers : RunProducer(b)
    \/ \E c \in Consumers : Run(c)
    \/ LogTotals

MainSpec == MainInit /\ [][MainNext]_vars

(***************************************************************************)
(* The recursion between copy_files outputs.  get_files of an output with  *)
(* an `output` spec that names a copy_files output enters get_targets of   *)
(* that output, and so its get_files, before it goes on (lines 98-105 and  *)
(* 346-349); run_output enters its run, and so its get_files again (lines  *)
(* 109-116).  A frame of the stack is one get_files under way: the output, *)
(* the spec it is at, its no_out_run, and whether the targets of the       *)
(* output the spec names are known.  What the passes resolve is left out:  *)
(* here every spec that names no copy_files output is resolved well.       *)
(***************************************************************************)
\* the deepest recursion followed
MaxDepth == 4

\* the FileSpecs of the outputs that name each other
DepSpecs ==
    { FileSpec("files", "*.csv", ".*", "", FALSE),
      FileSpec("output", "b1", ".*", "", FALSE),
      FileSpec("output", "c1", ".*", "", FALSE),
      FileSpec("output", "c2", ".*", "", FALSE) }

\* get_files(no_out_run) of output out starts
Frame(out, no_out_run) == [out |-> out, i |-> 1, no_out_run |-> no_out_run, got |-> FALSE]

\* the innermost get_files and the spec its loop is at
Top == stack[Len(stack)]
TopSpec == files[Top.out][Top.i]

\* line 291: the loop has a spec to resolve
Pending == stack # <<>> /\ Top.i <= Len(files[Top.out])

\* lines 298 and 101: the spec is of type `output` and names a copy_files output
NamesCopyFiles ==
    Pending /\ TopSpec.source_type = "output" /\ TopSpec.source \in Consumers

\* what the recursion leaves alone
resolution ==
    <<ki6, fsFiles, fsDirs, files, link_no_copy, follow_links, sst, output_dir, execCount,
      temporals, pc, before, resolved, returned, segs, idx, copied, warnings, err, args, mpc,
      outputs, queue, events, status>>

DepsInit ==
    /\ files \in [Consumers -> SeqsUpTo(DepSpecs, MaxSpecs) \ {<<>>}]
    /\ Started(InitFiles)
    /\ link_no_copy["c1"] = FALSE
    /\ args = NoArgs
    /\ ki6 = TRUE
    /\ mpc = "outputs"
    /\ outputs = <<Registered("b1", OtherPriority), Registered("c1", CopyFilesPriority),
                   Registered("c2", CopyFilesPriority)>>
    /\ queue = [open |-> TRUE, q |-> <<>>]

\* get_targets (lines 346-349, no_out_run) or run (lines 355-360) of output c
\* is called from outside
DepsEnter(c, no_out_run) ==
    /\ stack = <<>>
    /\ pc = "idle"
    /\ no_out_run \/ ~done[c]
    /\ stack' = <<Frame(c, no_out_run)>>
    /\ last' = [op |-> IF no_out_run THEN "targets" ELSE "run", out |-> c]
    /\ UNCHANGED <<done, resolution>>

\* lines 297-343 for a spec that names no copy_files output
DepsLocal ==
    /\ Pending
    /\ ~NamesCopyFiles
    /\ stack' = [stack EXCEPT ![Len(stack)].i = @ + 1]
    /\ UNCHANGED <<last, done, resolution>>

\* line 105 with a test that the output is not being resolved already
DepsCall_guarded ==
    /\ NamesCopyFiles
    /\ ~Top.got
    /\ Len(stack) < MaxDepth
    /\ stack' = IF \E k \in 1..Len(stack) : stack[k].out = TopSpec.source
                THEN [stack EXCEPT ![Len(stack)].i = @ + 1]
                ELSE Append(stack, Frame(TopSpec.source, TRUE))
    /\ UNCHANGED <<last, done, resolution>>

\* line 105: out.get_targets(out_dir), which is get_files(no_out_run=True)
\* of the output named (line 348)
DepsCall ==
    /\ NamesCopyFiles
    /\ ~Top.got
    /\ Len(stack) < MaxDepth
    /\ stack' = Append(stack, Frame(TopSpec.source, TRUE))
    /\ UNCHANGED <<last, done, resolution>>

\* lines 110-116: a target is missing and the output was not run: run_output,
\* which is run, and so get_files(), of the output named
DepsRunOutput ==
    /\ NamesCopyFiles
    /\ Top.got
    /\ ~Top.no_out_run
    /\ ~done[TopSpec.source]
    /\ Len(stack) < MaxDepth
    /\ stack' = Append(stack, Frame(TopSpec.source, FALSE))
    /\ UNCHANGED <<last, done, resolution>>

\* lines 109-120: no_out_run, or no target is missing: on to the next spec
DepsGoOn ==
    /\ NamesCopyFiles
    /\ Top.got
    /\ stack' = [stack EXCEPT ![Len(stack)] = [@ EXCEPT !.i = @ + 1, !.got = FALSE]]
    /\ UNCHANGED <<last, done, resolution>>

\* line 344: get_files returns; to line 105 of the caller when get_targets
\* called it, to line 116 when run_output did, which marks the output done
DepsReturn ==
    LET Back(caller) ==
            IF Top.no_out_run THEN [caller EXCEPT !.got = TRUE]
            ELSE [caller EXCEPT !.i = @ + 1, !.got = FALSE]
    IN  /\ stack # <<>>
        /\ ~Pending
        /\ stack' = IF Len(stack) = 1 THEN <<>>
                    ELSE [SubSeq(stack, 1, Len(stack) - 1) EXCEPT ![Len(stack) - 1] = Back(@)]
        /\ done' = IF Top.no_out_run THEN done ELSE [done EXCEPT ![Top.out] = TRUE]
        /\ UNCHANGED <<last, resolution>>

DepsNext ==
    \/ \E c \in Consumers, no_out_run \in BOOLEAN : DepsEnter(c, no_out_run)
    \/ DepsLocal
    \/ DepsCall
    \/ DepsRunOutput
    \/ DepsGoOn
    \/ DepsReturn

\* the interpreter runs one thread and goes on while there is a statement to run
DepsSpec == DepsInit /\ [][DepsNext]_vars /\ WF_vars(DepsNext)

(***************************************************************************)
(* kibot run again on the file system an earlier process left              *)
(***************************************************************************)
\* a new process starts: the outputs are as configured, nothing was run yet;
\* the file system is as it was left, and so is what the last run resolved
NewProcess ==
    /\ last.op = "run"
    /\ "kibot" \notin Range(events)
    /\ last' = [op |-> "start", out |-> last.out]
    /\ pc' = "idle"
    /\ done' = [o \in Outputs |-> FALSE]
    /\ execCount' = [o \in Outputs |-> 0]
    /\ temporals' = [c \in Consumers |-> {}]
    /\ sst' = [c \in Consumers |-> [i \in 1..Len(files[c]) |-> InitSpecState]]
    /\ output_dir' = [c \in Consumers |-> ""]
    /\ events' = Append(events, "kibot")
    /\ UNCHANGED <<ki6, stack, fsFiles, fsDirs, files, link_no_copy, follow_links, before,
                   resolved, returned, segs, idx, copied, warnings, err, args, mpc, outputs,
                   queue, status>>

RerunNext ==
    \/ GetTargets("c1")
    \/ Run("c1")
    \/ NewProcess

RerunSpec == Init /\ [][RerunNext]_vars
(***************************************************************************)
(* Properties                                                              *)
(***************************************************************************)
\* the last operation was a pass of get_files on a copy_files output
Collected == last.op \in {"targets", "run"}

\* the FileSpecs that pass went over
LastFiles == files[last.out]

\* the destination the loop of run computes for the i-th resolved entry
RunDest(i) == join(RunDir(last.out) \o "/", resolved[i].dst)

\* the entries with a source the loop of run got to
Reached == {j \in 1..Len(resolved) : j <= idx /\ resolved[j].src # None}

\* how often producer b had been entered when the pass left its i-th spec
ExecAfter(i, b) == IF i < Len(segs) THEN segs[i + 1].exec[b] ELSE execCount[b]

\* C1: a producer is executed at most once in a process, and its done flag
\* never goes back to false; in a run, a spec of type `output` that meets a
\* missing target of a producer that is not done runs that producer
\* exactly once, and a spec that meets it done, or meets no missing target,
\* does not run it
C1_AtMostOnce ==
    /\ \A b \in Producers : execCount[b] <= 1 /\ (done[b] => execCount[b] = 1)
    /\ \A o \in Outputs : before.done[o] => done[o]
    /\ last.op = "run" =>
          \A i \in 1..Len(segs) :
              (LastFiles[i].source_type = "output" /\ LastFiles[i].source \in Producers) =>
                  ExecAfter(i, LastFiles[i].source) =
                      segs[i].exec[LastFiles[i].source]
                      + (IF /\ ~segs[i].done[LastFiles[i].source]
                            /\ \E t \in Range(Targets(LastFiles[i].source)) :
                                   ~isfile(segs[i].F, t)
                         THEN 1 ELSE 0)

\* a run with two requests for a producer that had not run: one execution
C1_Witness ==
    /\ last.op = "run"
    /\ pc = "idle"
    /\ Len(segs) = 2
    /\ LastFiles[1].source_type = "output"
    /\ LastFiles[2].source_type = "output"
    /\ ~before.done["b1"]
    /\ ~isfile(before.F, "/w/o/x.bin")
    /\ done["b1"]
    /\ execCount["b1"] = 1

\* C2: a run ends with INTERNAL_ERROR only in a spec of type `output`, the
\* error names a declared target that is no file and its producer, the
\* producer was entered once if it was not done and not at all if it was,
\* and no list is returned and nothing copied; and a run that ends without
\* an error leaves every target of its `output` specs a file
C2_StillMissingFails ==
    /\ err.code = "INTERNAL_ERROR" =>
          /\ last.op = "run"
          /\ pc = "exited"
          /\ resolved = <<>>
          /\ idx = 0
          /\ copied = EmptyMap
          /\ LastFiles[Len(segs)].source_type = "output"
          /\ err.out = LastFiles[Len(segs)].source
          /\ err.file \in Range(Targets(err.out))
          /\ ~isfile(fsFiles, err.file)
          /\ execCount[err.out] = before.exec[err.out] + (IF before.done[err.out] THEN 0 ELSE 1)
    /\ (last.op = "run" /\ pc = "idle") =>
          \A i \in 1..Len(LastFiles) :
              LastFiles[i].source_type = "output" =>
                  \A t \in Range(Targets(LastFiles[i].source)) : isfile(fsFiles, t)

\* a target missing although its producer had been run before: no second run
C2_Witness ==
    /\ err.code = "INTERNAL_ERROR"
    /\ before.done[err.out]
    /\ execCount[err.out] = 1

\* C3 as stated: when a run fails on a copy of a file over itself, no
\* earlier entry has been copied or linked and no directory created
C3_FailsBeforeMutation ==
    (last.op = "run" /\ idx >= 1 /\ err.kind = "KiPlotConfigurationError") =>
        copied = EmptyMap /\ fsDirs = before.D

\* C3: when a run fails on a copy of a file over itself, the entry it
\* stopped at has a source and a destination that exist and are the same
\* file, that entry was neither copied nor linked, the entries before it
\* were, and the output is not done; and no entry is ever copied or linked
\* onto itself
C3_SelfCopyFailsAtEntry ==
    last.op = "run" =>
        /\ (idx >= 1 /\ err.kind = "KiPlotConfigurationError") =>
              /\ idx \in Reached
              /\ exists(fsFiles, fsDirs, resolved[idx].src)
              /\ exists(fsFiles, fsDirs, RunDest(idx))
              /\ samefile(fsFiles, resolved[idx].src, RunDest(idx))
              /\ err.file = RunDest(idx)
              /\ \A j \in Reached \ {idx} : RunDest(j) \in DOMAIN copied
              /\ \A d \in DOMAIN copied : \E j \in Reached \ {idx} :
                     RunDest(j) = d /\ resolved[j].src = copied[d]
              /\ pc = "exited"
              /\ ~done[last.out]
        /\ \A d \in DOMAIN copied : Key(copied[d]) # Key(d)

\* a run that fails on a copy over itself after it copied other entries
C3_Witness ==
    /\ last.op = "run"
    /\ idx > 1
    /\ err.kind = "KiPlotConfigurationError"
    /\ copied # EmptyMap
    /\ fsDirs # before.D

\* the W_COPYOVER warnings of the last operation
CopyOver == SelectSeq(warnings, LAMBDA x : x.code = "W_COPYOVER")

\* the entries reached whose destination an earlier entry was written to
Colliding == {j \in Reached : \E i \in Reached : i < j /\ RunDest(i) = RunDest(j)}

\* the k-th entry of the set S of indexes
Nth(S, k) == CHOOSE j \in S : Cardinality({i \in S : i < j}) = k - 1

\* the last entry before j with the destination of j
Previous(j) ==
    CHOOSE i \in Reached : /\ i < j
                           /\ RunDest(i) = RunDest(j)
                           /\ \A h \in Reached : (h < j /\ RunDest(h) = RunDest(j)) => h <= i

\* the last entry with destination d
LastTo(d) == CHOOSE j \in Reached : RunDest(j) = d /\ \A h \in Reached : RunDest(h) = d => h <= j

\* the paths written in the run
Written == {realpath(fsFiles, d) : d \in DOMAIN copied}

\* every destination written holds its last entry
LastWins ==
    \A d \in DOMAIN copied :
        /\ copied[d] = resolved[LastTo(d)].src
        /\ (isfile(fsFiles, copied[d]) /\ realpath(fsFiles, copied[d]) \notin Written) =>
              IF link_no_copy[last.out]
              THEN islink(fsFiles, d) /\ realpath(fsFiles, d) = realpath(fsFiles, copied[d])
              ELSE /\ isfile(fsFiles, d)
                   /\ ~islink(fsFiles, d)
                   /\ fsFiles[Key(d)].data = fsFiles[realpath(fsFiles, copied[d])].data

\* C4 as stated: a run in which two different files go to one destination
\* is not aborted, warns once for each collision, and leaves in every
\* destination the entry that came last
C4_CollisionNeverAborts ==
    (last.op = "run" /\ \E k \in 1..Len(CopyOver) : CopyOver[k].a # CopyOver[k].b) =>
        /\ err.kind = "none"
        /\ Len(CopyOver) = Cardinality(Colliding)
        /\ LastWins

\* C4: a run logs one W_COPYOVER warning for each entry whose destination
\* an earlier entry of the run was written to, naming the source of the
\* entry, the source written there last and the destination; and when the
\* run ends without an error every destination holds the entry that came
\* last for it
C4_OneWarningPerCollision ==
    last.op = "run" =>
        /\ Len(CopyOver) = Cardinality(Colliding)
        /\ \A k \in 1..Len(CopyOver) :
              /\ CopyOver[k].a = resolved[Nth(Colliding, k)].src
              /\ CopyOver[k].b = resolved[Previous(Nth(Colliding, k))].src
              /\ CopyOver[k].c = RunDest(Nth(Colliding, k))
        /\ pc = "idle" => LastWins

\* a run that warned of two different files going to one destination and
\* went on to the end
C4_Witness ==
    /\ last.op = "run"
    /\ pc = "idle"
    /\ \E k \in 1..Len(CopyOver) : CopyOver[k].a # CopyOver[k].b
    /\ done[last.out]

\* C5: after a run that completed, or that an exception raised in the loop
\* over the entries ended, no temporary of the resolution is left
C5_TemporalsRemoved ==
    (last.op = "run" /\ (pc = "idle" \/ idx >= 1)) =>
        /\ temporals[last.out] = {}
        /\ \A k \in DOMAIN fsFiles : dirname(k) # TmpDir

\* C6: a dry pass executes no producer and creates no directory
C6_DryNoSideEffects ==
    last.op = "targets" =>
        /\ execCount = before.exec
        /\ done = before.done
        /\ fsDirs = before.D

\* is dst a relative path that stays below the directory it is joined to?
Inside(dst) == ~isabs(dst) /\ ~startswith(normpath(dst) \o "/", "../")

\* C7: every destination of a spec of type `files` is a relative path that
\* does not lead out of the output directory
C7_FilesDestInside ==
    Collected =>
        \A i \in 1..Len(segs) :
            LastFiles[i].source_type = "files" =>
                \A e \in Range(segs[i].found) : Inside(e.dst)

\* C8: every destination of a copied model of a spec of type `3d_models` or
\* `project` is a relative path without a `..` segment, and every generated
\* entry is below the output directory
C8_ModelDestInside ==
    Collected =>
        \A i \in 1..Len(segs) :
            LastFiles[i].source_type \in {"3d_models", "project"} =>
                /\ \A e \in Range(segs[i].found) :
                       ~isabs(e.dst) /\ ".." \notin Range(split(e.dst))
                /\ \A e \in Range(segs[i].extra) :
                       startswith(normpath(join(RunDir(last.out), e.dst)),
                                  RunDir(last.out) \o "/")

\* C9: a second get_files right after a dry pass returns the list the dry
\* pass returned
C9_Idempotent ==
    (last.op = "targets" /\ pc = "idle") =>
        get_files(World(last.out), LastFiles, TRUE, RunDir(last.out),
                  follow_links[last.out], {}).files = resolved

\* does the name n match the component p of a pattern?
Matches(n, p) ==
    IF has_magic(p) THEN fnmatch(n, p) /\ (ishidden(p) \/ ~ishidden(n)) ELSE n = p

\* the paths below root, as lists of names, that the pattern stands for in (F, D)
GlobMatches(F, D, root, pattern) ==
    {cs \in [1..Len(split(pattern)) -> Range(Names) \cup {".."}] :
        /\ \A k \in 1..Len(cs) : Matches(cs[k], split(pattern)[k])
        /\ lexists(F, D, join(root, JoinSlash(cs)))}

\* what a spec f of type `files` or `out_files` resolves to in (F, D)
Expected(F, D, f, root) ==
    {Entry(realpath(F, join(root, JoinSlash(cs))),
           IF f.dest # "" THEN f.dest \o "/" \o cs[Len(cs)] ELSE JoinSlash(cs)) :
        cs \in {cs \in GlobMatches(F, D, root, f.source) :
                   re_match(f.filter, join(root, JoinSlash(cs)))}}

\* C10: a spec of type `files` (root: the working directory) or `out_files`
\* (root: the output directory) resolves to exactly the matches of its
\* pattern below the root whose path matches the filter, each once, with
\* the path below the root as destination, or dest/basename when dest is
\* set; `*.csv` without dest in a directory of a.csv, b.csv and c.txt gives
\* a.csv and b.csv
C10_GlobResolution ==
    Collected =>
        \A i \in 1..Len(segs) :
            /\ LastFiles[i].source_type \in {"files", "out_files"} =>
                  /\ Range(segs[i].found) =
                         Expected(segs[i].F, segs[i].D, LastFiles[i],
                                  IF LastFiles[i].source_type = "files" THEN Cwd ELSE OutDir)
                  /\ Len(segs[i].found) = Cardinality(Range(segs[i].found))
                  /\ segs[i].extra = <<>>
            /\ LastFiles[i] = FileSpec("files", "*.csv", ".*", "", FALSE) =>
                  {e.dst : e \in Range(segs[i].found)} = {"a.csv", "b.csv"}

\* a pass over a pattern with a directory, and over one flattened to dest
C10_Witness ==
    /\ Collected
    /\ Len(segs) = 2
    /\ LastFiles[1] = FileSpec("files", "*/*", ".*\\.csv", "", FALSE)
    /\ LastFiles[2] = FileSpec("out_files", "*.csv", ".*", "x", FALSE)
    /\ Range(segs[1].found) = {Entry("/w/d/e.csv", "d/e.csv"), Entry("/w/o/a.csv", "o/a.csv")}
    /\ Range(segs[2].found) = {Entry("/w/o/a.csv", "x/a.csv")}

\* is the path fname below the directory d?
BelowDir(fname, d) == startswith(fname, RStripSlash(d) \o "/")

\* fname without the first of the base directories it is below, its
\* basename when it is below none
Stripped(fname) ==
    LET k == FirstOr0({k \in 1..Len(rel_dirs) : BelowDir(fname, rel_dirs[k])})
    IN  IF k = 0 THEN basename(fname)
        ELSE SubSeq(fname, Len(RStripSlash(rel_dirs[k])) + 2, Len(fname))

\* the destination of the model fname under spec f: below DIR for dest DIR+,
\* DIR/basename for dest DIR, the stripped path without dest
Rewritten(f, fname) ==
    IF f.dest = "" THEN Stripped(fname)
    ELSE IF endswith(f.dest, "+")
    THEN join(SubSeq(f.dest, 1, Len(f.dest) - 1), Stripped(fname))
    ELSE join(f.dest, basename(fname))

\* C11: every model of a spec of type `3d_models` that passes the filter is
\* resolved to its path without the first base directory it is below (its
\* basename when below none), under DIR for dest DIR+, or to DIR/basename
\* for a plain dest; and apply_rename gives the saved board that same path
C11_ModelPathRewriting ==
    Collected =>
        \A i \in 1..Len(segs) :
            LastFiles[i].source_type = "3d_models" =>
                \A k \in 1..Len(segs[i].renamed) :
                    re_match(LastFiles[i].filter, segs[i].renamed[k].fname) =>
                        /\ \E e \in Range(segs[i].found) :
                               /\ e.src = realpath(fsFiles, segs[i].renamed[k].fname)
                               /\ e.dst = Rewritten(LastFiles[i], segs[i].renamed[k].fname)
                        /\ segs[i].renamed[k].to =
                               "${KIPRJMOD}/" \o Rewritten(LastFiles[i], segs[i].renamed[k].fname)


\* the outputs generate_outputs ran, in the order it ran them
Ran == SelectSeq(events, LAMBDA e : e \in Outputs)

\* the place of output o in the configuration, and its priority
Place(o) == CHOOSE k \in 1..Len(outputs) : outputs[k].name = o

Priority(o) == outputs[Place(o)].priority

\* the place of output o on the command line, its place in the
\* configuration when the command line names no targets
Turn(o) ==
    IF args.target # <<>> /\ ~args.invert_sel
    THEN CHOOSE k \in 1..Len(args.target) : args.target[k] = o
    ELSE Place(o)

\* the outputs were run in the order of the command line
InGivenOrder == \A i, j \in 1..Len(Ran) : i < j => Turn(Ran[i]) < Turn(Ran[j])

Calls(f) == Cardinality({k \in 1..Len(events) : events[k] = f})

FatalToOutput ==
    /\ pc = "exited"
    /\ last.op = "run"
    /\ ~done[last.out]
    /\ resolved = <<>>
    /\ copied = EmptyMap
    /\ LastFiles[Len(segs)].source_type = "output"
    /\ LastFiles[Len(segs)].source = err.out

\* C14 as stated: an unknown producer and a target that is still absent
\* after its producer ran are both reported as INTERNAL_ERROR, and both are
\* fatal to the output
C14_SameErrorClass ==
    err.kind = "exit" => (err.code = "INTERNAL_ERROR" /\ FatalToOutput)

\* C14: an `output` spec that names no registered output ends the process
\* with WRONG_ARGUMENTS, the level of the argument errors, and one whose
\* target is still absent after the producer ran ends it with
\* INTERNAL_ERROR; both are fatal to the output
C14_ErrorClasses ==
    err.kind = "exit" =>
        /\ FatalToOutput
        /\ IF err.out \in Producers
           THEN /\ err.code = "INTERNAL_ERROR"
                /\ err.file \in Range(Targets(err.out))
                /\ ~isfile(fsFiles, err.file)
                /\ done[err.out]
           ELSE err.code = "WRONG_ARGUMENTS"

\* a process that ended on an unknown producer after an earlier spec was
\* resolved
C14_Witness ==
    /\ err.kind = "exit"
    /\ err.out = "b9"
    /\ err.code = "WRONG_ARGUMENTS"
    /\ Len(segs) = 2
    /\ segs[1].found # <<>>


\* how often x occurs in the list q
Count(q, x) == Cardinality({k \in 1..Len(q) : q[k] = x})

\* the list q is in ascending order
IsSorted(q) == \A i, j \in 1..Len(q) : i < j => ~StrLess(q[j], q[i])

\* the lists q and r have the same elements, each as often
SameBag(q, r) == Len(q) = Len(r) /\ \A k \in 1..Len(r) : Count(q, r[k]) = Count(r, r[k])

\* the entries of the resolved list that have a source
Present == SelectSeq(resolved, LAMBDA e : e.src # None)

\* C15: run neither copies, links nor removes an entry without a source,
\* never warns about one and never enters one in `copied`; get_targets
\* returns the destinations of all the entries resolved, those without a
\* source too, and get_dependencies the sources of those that have one,
\* both in ascending order
C15_GeneratedEntries ==
    /\ last.op = "run" =>
          /\ \A d \in DOMAIN copied :
                 /\ copied[d] # None
                 /\ \E j \in Reached : RunDest(j) = d /\ resolved[j].src = copied[d]
          /\ \A k \in 1..Len(CopyOver) : CopyOver[k].a # None /\ CopyOver[k].b # None
          /\ \A j \in 1..Len(resolved) :
                 (/\ resolved[j].src = None
                  /\ j <= idx
                  /\ isfile(before.F, RunDest(j))
                  /\ \A i \in Reached : Key(RunDest(i)) # Key(RunDest(j)))
                 => fsFiles[Key(RunDest(j))] = before.F[Key(RunDest(j))]
                    \/ fsFiles[Key(RunDest(j))].data \in {"board", "project", "schematic",
                                                         "symbols", SYM_LIB_TABLE}
                    \/ startswith(fsFiles[Key(RunDest(j))].data, FP_LIB_TABLE \o ":")
    /\ (last.op = "targets" /\ pc = "idle") =>
          /\ IsSorted(returned)
          /\ SameBag(returned, [k \in 1..Len(resolved) |->
                                   join(RunDir(last.out), resolved[k].dst)])
    /\ (last.op = "dependencies" /\ pc = "idle") =>
          /\ IsSorted(returned)
          /\ SameBag(returned, [k \in 1..Len(Present) |-> Present[k].src])
          /\ None \notin Range(returned)

\* a run to the end that copied the models of the project and skipped the
\* files the resolution generated
C15_Witness ==
    /\ last.op = "run"
    /\ pc = "idle"
    /\ copied # EmptyMap
    /\ \E j \in 1..Len(resolved) : resolved[j].src = None /\ isfile(fsFiles, RunDest(j))
    /\ Len(Present) < Len(resolved)


FirstProject ==
    FirstOr0({i \in 1..Len(LastFiles) : LastFiles[i].source_type = "project"})

\* the run raised before the first entry, and nothing was copied, linked or
\* removed: what is new in the file system is what the resolution generated
NothingCopied ==
    /\ err.kind = "KiPlotConfigurationError"
    /\ pc = "exited"
    /\ resolved = <<>>
    /\ idx = 0
    /\ copied = EmptyMap
    /\ ~done[last.out]
    /\ \A k \in DOMAIN before.F : k \in DOMAIN fsFiles /\ fsFiles[k] = before.F[k]
    /\ \A k \in DOMAIN fsFiles \ DOMAIN before.F :
           fsFiles[k].kind = "file" /\ fsFiles[k].data \in {"board", "project", "download"}

\* C17: a run over a spec of type `project` on a KiCad older than 6 raises
\* KiPlotConfigurationError, returns no entry and copies, links and removes
\* nothing, and so does the run of an output without `files`; no other
\* output is run or marked as done by it
C17_ConfigErrors ==
    last.op = "run" =>
        /\ (~ki6 /\ FirstProject # 0) =>
              /\ NothingCopied
              /\ err.file = "project"
              /\ Len(segs) = FirstProject - 1
        /\ LastFiles = <<>> => (NothingCopied /\ err.file = "No files provided" /\ fsFiles = before.F)
        /\ (err.kind = "KiPlotConfigurationError" /\ idx = 0) =>
              /\ NothingCopied
              /\ \A o \in Outputs \ {last.out} :
                     done[o] = before.done[o] /\ execCount[o] = before.exec[o]

\* a run on KiCad 5 that saved the board for the models of its first spec
\* and raised at the project spec after it
C17_Witness ==
    /\ last.op = "run"
    /\ ~ki6
    /\ Len(LastFiles) = 2
    /\ Len(segs) = 1
    /\ err.kind = "KiPlotConfigurationError"
    /\ isfile(fsFiles, "/w/o/b.pcb")
    /\ ~isfile(before.F, "/w/o/b.pcb")


\* the name of the model fn in the other format, None when it has none
Sibling(fn) ==
    IF endswith(fn, ".wrl") THEN SubSeq(fn, 1, Len(fn) - 4) \o ".step"
    ELSE IF endswith(fn, ".step") THEN SubSeq(fn, 1, Len(fn) - 5) \o ".wrl"
    ELSE None

\* the models enumerated for the i-th spec of the last pass
Matched(i) == [k \in 1..Len(segs[i].renamed) |-> segs[i].renamed[k].fname]

\* the siblings the i-th spec may add: of a matched model, a file when the
\* spec was resolved, not matched itself, and let pass by the spec's filter
Siblings(i) ==
    {s \in {Sibling(Matched(i)[k]) : k \in 1..Len(segs[i].renamed)} :
        /\ s # None
        /\ isfile(segs[i].F, s)
        /\ s \notin Range(Matched(i))
        /\ re_match(LastFiles[i].filter, s)}

\* the specs of the last pass that enumerate 3D models
ModelSpecs ==
    {i \in 1..Len(segs) : LastFiles[i].source_type \in {"3d_models", "project"}}

Edges(c) ==
    {files[c][i].source : i \in {i \in 1..Len(files[c]) : files[c][i].source_type = "output"}}
        \cap Consumers

RECURSIVE Grow(_, _)
\* the outputs reached from those of S in up to n steps along the edges, and S
Grow(S, n) == IF n = 0 THEN S ELSE Grow(S \cup UNION {Edges(x) : x \in S}, n - 1)

\* the outputs reached from c in one step or more
Below(c) == Grow(Edges(c), Cardinality(Consumers))

\* a cycle of the dependency graph is reached from c
Cyclic(c) == \E x \in Below(c) \cup {c} : x \in Below(x)

\* a resolution is under way, and the output it was asked for reaches a cycle
InCycle == stack # <<>> /\ Cyclic(stack[1].out)

\* a resolution is under way, and the output it was asked for reaches no cycle
InDag == stack # <<>> /\ ~Cyclic(stack[1].out)

\* C19: cycles between copy_files outputs are not detected.  A resolution,
\* a dry one too, of an output that reaches a cycle never returns, and
\* its recursion gets as deep as it is followed; a resolution of an output
\* that reaches no cycle is never deeper than there are copy_files outputs,
\* and returns
C19_CyclesNotDetected ==
    /\ [][InCycle => stack' # <<>>]_vars
    /\ InCycle ~> (Len(stack) = MaxDepth)
    /\ [](InDag => Len(stack) <= Cardinality(Consumers))
    /\ InDag ~> (stack = <<>>)

\* get_targets of c1, which names c2, which names c1: the recursion is as
\* deep as it is followed, through the two outputs in turn, all passes dry
C19_Witness ==
    /\ last = [op |-> "targets", out |-> "c1"]
    /\ files["c1"] = <<FileSpec("output", "c2", ".*", "", FALSE)>>
    /\ files["c2"] = <<FileSpec("files", "*.csv", ".*", "", FALSE),
                       FileSpec("output", "c1", ".*", "", FALSE)>>
    /\ Len(stack) = MaxDepth
    /\ \A k \in 1..Len(stack) :
           /\ stack[k].out = (IF k % 2 = 1 THEN "c1" ELSE "c2")
           /\ stack[k].no_out_run

\* the file of the footprint of module m, None when its library is unknown
FootprintSrc(m) ==
    IF m.lib \in DOMAIN FpLibTable THEN join(FpLibTable[m.lib], m.name \o ".kicad_mod")
    ELSE None

\* the footprint library table the i-th spec of the last pass enters
TableOf(i) == join(join(output_dir[last.out], LastFiles[i].dest), FP_LIB_TABLE)

\* the nicknames of the aliases of a footprint library table written
AliasesIn(data) == split(SubSeq(data, Len(FP_LIB_TABLE) + 2, Len(data)))

\* the places of entry e in the list q
Places(q, e) == {k \in 1..Len(q) : q[k] = e}

\* C20: a `project` spec resolved to the end warns W_MISSLIB for a module
\* whose library is unknown, and neither an entry nor an alias of the table
\* written is of that library; it warns W_MISSCMP for a module whose
\* footprint is no file, which gives no entry; the later modules are
\* resolved all the same: a footprint that is a file and passes the filter
\* is entered once, and the table, when it passes the filter, is entered
\* once, after every footprint
C20_MissingAreWarnings ==
    (Collected /\ pc = "idle") =>
        \A i \in {i \in 1..Len(segs) : LastFiles[i].source_type = "project"} :
            /\ \A k \in 1..Len(BoardModules) :
                   LET m == BoardModules[k]
                   IN  IF FootprintSrc(m) = None
                       THEN /\ Warning("W_MISSLIB", m.lib, "", "") \in Range(warnings)
                            /\ \A e \in Range(segs[i].extra) :
                                   e.src = None \/ basename(dirname(e.dst)) # m.lib \o ".pretty"
                            /\ last.op = "run" =>
                                   m.lib \notin Range(AliasesIn(fsFiles[Key(TableOf(i))].data))
                       ELSE IF ~isfile(segs[i].F, FootprintSrc(m))
                       THEN /\ Warning("W_MISSCMP", m.name, m.lib, "") \in Range(warnings)
                            /\ \A e \in Range(segs[i].extra) : e.src # FootprintSrc(m)
                       ELSE Cardinality({j \in 1..Len(segs[i].extra) :
                                            segs[i].extra[j].src = FootprintSrc(m)})
                                = IF re_match(LastFiles[i].filter, FootprintSrc(m)) THEN 1 ELSE 0
            /\ Cardinality(Places(segs[i].extra, Entry(None, TableOf(i))))
                   = IF re_match(LastFiles[i].filter, TableOf(i)) THEN 1 ELSE 0
            /\ \A t \in Places(segs[i].extra, Entry(None, TableOf(i))) :
                   \A j \in 1..Len(segs[i].extra) : segs[i].extra[j].src # None => j < t

\* a project was run on a board whose first module is of an unknown library
\* and whose second has no footprint file: both are warned of, the footprint
\* of the third is entered, the table after it, and the table written has
\* the alias of the one library known
C20_Witness ==
    /\ last.op = "run"
    /\ pc = "idle"
    /\ LastFiles = <<FileSpec("project", "*", ".*", "prj", FALSE)>>
    /\ Warning("W_MISSLIB", "M", "", "") \in Range(warnings)
    /\ Warning("W_MISSCMP", "C9", "L", "") \in Range(warnings)
    /\ \E j \in 1..Len(segs[1].extra) :
           /\ segs[1].extra[j] = Entry("/k/L.pretty/R1.kicad_mod",
                                       "/w/o/prj/footprints/L.pretty/R1.kicad_mod")
           /\ segs[1].extra[j + 1] = Entry(None, "/w/o/prj/fp-lib-table")
    /\ AliasesIn(fsFiles["/w/o/prj/fp-lib-table"].data) = <<"L">>

\* the step is the run of output c by a new process, right after a process
\* before it ran c without error; it resolves the list that one resolved,
\* and the sources of the list are as they were before that one ran
RunsAgain(c) ==
    /\ last = [op |-> "start", out |-> c]
    /\ err = NoErr
    /\ events = <<c, "kibot">>
    /\ events' = <<c, "kibot", c>>
    /\ resolved' = resolved
    /\ \E e \in Range(resolved) : e.src # None
    /\ \A e \in Range(resolved) :
           e.src # None => /\ e.src \in DOMAIN before.F \cap DOMAIN fsFiles
                           /\ fsFiles[e.src] = before.F[e.src]

\* C21 as stated: the second of two runs on the same resolved list succeeds
\* and leaves the destinations as the first left them, copying or linking
C21_RerunIsSafe ==
    [][RunsAgain("c1") => (err' = NoErr /\ fsFiles' = fsFiles /\ fsDirs' = fsDirs)]_vars


\* the outputs as the i-th spec of the last pass left them: as the next spec
\* met them, or as they are when it was the last to be resolved
LeftBy(i) ==
    IF i < Len(segs) THEN [done |-> segs[i + 1].done, exec |-> segs[i + 1].exec]
    ELSE [done |-> done, exec |-> execCount]

\* the i-th spec of the last pass had to run producer b: the pass was one of
\* run, b had not run, and a target of b was no file
Demanded(i, b) ==
    /\ last.op = "run"
    /\ ~segs[i].done[b]
    /\ \E t \in Range(Targets(b)) : ~isfile(segs[i].F, t)

\* C22: the resolution of an `output` spec that names producer b executes b
\* once when a target of b is no file, b has not run and the pass is not
\* dry, and then b is done; in any other case, that of all the targets
\* being files too, whether b has run or not, it does not execute b and
\* leaves its done flag as it was
C22_ProducerOnDemand ==
    Collected =>
        \A i \in 1..Len(segs) :
            (LastFiles[i].source_type = "output" /\ LastFiles[i].source \in Producers) =>
                /\ LeftBy(i).exec[LastFiles[i].source]
                       = segs[i].exec[LastFiles[i].source]
                         + (IF Demanded(i, LastFiles[i].source) THEN 1 ELSE 0)
                /\ LeftBy(i).done[LastFiles[i].source]
                       = (segs[i].done[LastFiles[i].source] \/ Demanded(i, LastFiles[i].source))

\* a new process ran an output that takes the files of b1, made by the
\* process before: b1 was not executed and is not done
C22_Witness ==
    /\ last = [op |-> "run", out |-> "c1"]
    /\ events = <<"c1", "kibot", "c1">>
    /\ LastFiles = <<FileSpec("output", "b1", ".*x\\.bin", "x", FALSE)>>
    /\ err = NoErr
    /\ \A t \in Range(Targets("b1")) : isfile(segs[1].F, t)
    /\ execCount["b1"] = 0
    /\ ~done["b1"]

\* the destinations of the entries of the list q, in order
Dsts(q) == [k \in 1..Len(q) |-> q[k].dst]

\* get_files(no_out_run=True) of output c in the present state, as
\* get_targets(out_dir) calls it
DryNow(c) == get_files(World(c), files[c], TRUE, RunDir(c), follow_links[c], {})

\* the step is a run of output c, and every `output` spec of c names a
\* producer whose targets are all files
RunsComparable(c) ==
    /\ events' = Append(events, c)
    /\ last' = [op |-> "run", out |-> c]
    /\ \A i \in 1..Len(files[c]) :
           files[c][i].source_type = "output" =>
               /\ files[c][i].source \in Producers
               /\ \A t \in Range(Targets(files[c][i].source)) : isfile(fsFiles, t)

Shape(F, D) == [files |-> [k \in DOMAIN F |-> F[k].kind], dirs |-> D]

\* the destinations the spec that left s resolved: of its candidates, then
\* of its extra files
SegDsts(s) == Dsts(s.found \o s.extra)

PrintsOnly == args.info \in {"help", "example", "quick_start"}

\* the modes that list what the configuration defines
ListsOnly == args.info = "" /\ (args.list \/ args.list_variants)

\* what main did that builds something
Built ==
    Range(events) \cap ({"generate_outputs", "generate_makefile", "preflights"} \cup Outputs)

\* solve_config finds no configuration: none in the current directory, or
\* the one named is no file
NoConfig ==
    IF args.plot_config = "" THEN DOMAIN fsFiles \cap ConfigFiles = {}
    ELSE ~isfile(fsFiles, args.plot_config)

====
